---- MODULE Spec2Model ----
(***************************************************************************)
(* Model of the schema migration runner of todo-be                         *)
(* (src/scripts/migrate.js, class MigrationRunner and its CLI main):       *)
(* the migrations directory, the PostgreSQL ledger table `migrations`,     *)
(* the per-connection transaction, and the migrate / rollback / status     *)
(* commands, one step per awaited database statement.                      *)
(* The HTTP server (src/server.js) is modelled as far as its routes pass   *)
(* through the requireAuth middleware.                                     *)
(***************************************************************************)
EXTENDS Integers, Sequences, FiniteSets, TLC

(***************************************************************************)
(* Strings.  The string operations of the runner work on the characters   *)
(* of a string, a sequence of one-character strings, so that its file     *)
(* name tests are computed, not assumed.                                   *)
(***************************************************************************)

\* the characters that occur in the file names of the model, in ascending
\* UTF-16 code unit order ('.' 46 < '0'..'9' 48..57 < '_' 95 < 'a'..'z')
Alphabet == <<".", "0", "1", "2", "3", "4", "5", "6", "7", "8", "9", "_",
              "a", "b", "c", "d", "e", "f", "g", "h", "i", "j", "k", "l", "m",
              "n", "o", "p", "q", "r", "s", "t", "u", "v", "w", "x", "y", "z">>

\* rank of each character in code unit order
CharRank ==
    [c \in {Alphabet[i] : i \in 1..Len(Alphabet)} |->
        CHOOSE i \in 1..Len(Alphabet) : Alphabet[i] = c]

\* rank of a character in code unit order
CharCode(c) == CharRank[c]

\* the regex class \d
IsDigit(c) == c \in {"0", "1", "2", "3", "4", "5", "6", "7", "8", "9"}

\* String.prototype.startsWith
StartsWith(s, prefix) ==
    /\ Len(prefix) <= Len(s)
    /\ SubSeq(s, 1, Len(prefix)) = prefix

\* String.prototype.includes
Includes(s, sub) ==
    \E i \in 1..(Len(s) + 1) :
        /\ i + Len(sub) - 1 <= Len(s)
        /\ SubSeq(s, i, i + Len(sub) - 1) = sub

\* index of the first occurrence of sub in s, 0 when there is none
IndexOf(s, sub) ==
    IF Includes(s, sub)
    THEN CHOOSE i \in 1..(Len(s) + 1) :
            /\ i + Len(sub) - 1 <= Len(s)
            /\ SubSeq(s, i, i + Len(sub) - 1) = sub
            /\ \A j \in 1..(i - 1) : SubSeq(s, j, j + Len(sub) - 1) # sub
    ELSE 0

\* String.prototype.replace(sub, '') with a string pattern: the first
\* occurrence only
RemoveFirst(s, sub) ==
    LET i == IndexOf(s, sub)
    IN  IF i = 0 THEN s
        ELSE SubSeq(s, 1, i - 1) \o SubSeq(s, i + Len(sub), Len(s))

\* file.split('_')[0]: the part before the first underscore
SplitFirst(s) ==
    LET i == IndexOf(s, <<"_">>)
    IN  IF i = 0 THEN s ELSE SubSeq(s, 1, i - 1)

\* s < t from position i on, the characters before it being equal
RECURSIVE StrLessFrom(_, _, _)
StrLessFrom(s, t, i) ==
    IF i > Len(t) THEN FALSE
    ELSE IF i > Len(s) THEN TRUE
    ELSE IF s[i] = t[i] THEN StrLessFrom(s, t, i + 1)
    ELSE CharCode(s[i]) < CharCode(t[i])

\* s < t in the order Array.prototype.sort() uses without a comparator
\* (code unit by code unit, a proper prefix first)
StrLess(s, t) == StrLessFrom(s, t, 1)

RollbackWord == <<"r", "o", "l", "l", "b", "a", "c", "k">>
SqlExt == <<".", "s", "q", "l">>

\* file.match(/^\d{3}_.*\.sql$/)
MatchesMigrationPattern(file) ==
    /\ Len(file) >= 8
    /\ IsDigit(file[1]) /\ IsDigit(file[2]) /\ IsDigit(file[3])
    /\ file[4] = "_"
    /\ SubSeq(file, Len(file) - 3, Len(file)) = SqlExt

\* file.replace(/^\d{3}_/, '')
StripVersionPrefix(file) ==
    IF Len(file) >= 4 /\ IsDigit(file[1]) /\ IsDigit(file[2])
       /\ IsDigit(file[3]) /\ file[4] = "_"
    THEN SubSeq(file, 5, Len(file))
    ELSE file

(***************************************************************************)
(* The migrations directory.                                               *)
(***************************************************************************)

\* '000_create_migrations_table.sql', the file ensureMigrationsTable reads
BootstrapFile == "000_create_migrations_table.sql"

\* migrations/001_create_todos_table.sql
TodosFile == "001_create_todos_table.sql"

\* its rollback counterpart
TodosRollbackFile == "001_create_todos_table_rollback.sql"

\* migrations/002_add_description_field.sql
DescriptionFile == "002_add_description_field.sql"

\* its rollback counterpart
DescriptionRollbackFile == "002_add_description_field_rollback.sql"

\* a second forward file with the version prefix 001
SeedFile == "001_seed.sql"

\* a forward migration of version 003
IndexFile == "003_add_index.sql"

\* a file of version 003 that has the word rollback inside its name
RollbackFixFile == "003_rollback_fix.sql"

\* the file names the operator adds, removes or edits between two commands
OperatorFiles ==
    {BootstrapFile, TodosFile, TodosRollbackFile, DescriptionFile,
     DescriptionRollbackFile, SeedFile}

\* the file names that can appear in the migrations directory
FileNames == OperatorFiles \cup {IndexFile, RollbackFixFile}

\* the strings of the model: the file names, and the versions and names
\* that are cut out of them
Strings ==
    FileNames \cup {"", "000", "001", "002", "003", "create_migrations_table",
                    "create_todos_table", "add_description_field", "seed",
                    "add_index", "rollback_fix"}

\* the characters of each string
CharsOf ==
    [s \in Strings |->
        CASE s = "" ->
             <<>>
          [] s = "000" ->
             <<"0", "0", "0">>
          [] s = "001" ->
             <<"0", "0", "1">>
          [] s = "002" ->
             <<"0", "0", "2">>
          [] s = "003" ->
             <<"0", "0", "3">>
          [] s = "create_migrations_table" ->
             <<"c", "r", "e", "a", "t", "e", "_", "m", "i", "g", "r", "a", "t",
               "i", "o", "n", "s", "_", "t", "a", "b", "l", "e">>
          [] s = "create_todos_table" ->
             <<"c", "r", "e", "a", "t", "e", "_", "t", "o", "d", "o", "s", "_",
               "t", "a", "b", "l", "e">>
          [] s = "add_description_field" ->
             <<"a", "d", "d", "_", "d", "e", "s", "c", "r", "i", "p", "t", "i",
               "o", "n", "_", "f", "i", "e", "l", "d">>
          [] s = "seed" ->
             <<"s", "e", "e", "d">>
          [] s = "000_create_migrations_table.sql" ->
             <<"0", "0", "0", "_", "c", "r", "e", "a", "t", "e", "_", "m", "i",
               "g", "r", "a", "t", "i", "o", "n", "s", "_", "t", "a", "b", "l",
               "e", ".", "s", "q", "l">>
          [] s = "001_create_todos_table.sql" ->
             <<"0", "0", "1", "_", "c", "r", "e", "a", "t", "e", "_", "t", "o",
               "d", "o", "s", "_", "t", "a", "b", "l", "e", ".", "s", "q", "l">>
          [] s = "001_create_todos_table_rollback.sql" ->
             <<"0", "0", "1", "_", "c", "r", "e", "a", "t", "e", "_", "t", "o",
               "d", "o", "s", "_", "t", "a", "b", "l", "e", "_", "r", "o", "l",
               "l", "b", "a", "c", "k", ".", "s", "q", "l">>
          [] s = "002_add_description_field.sql" ->
             <<"0", "0", "2", "_", "a", "d", "d", "_", "d", "e", "s", "c", "r",
               "i", "p", "t", "i", "o", "n", "_", "f", "i", "e", "l", "d", ".",
               "s", "q", "l">>
          [] s = "002_add_description_field_rollback.sql" ->
             <<"0", "0", "2", "_", "a", "d", "d", "_", "d", "e", "s", "c", "r",
               "i", "p", "t", "i", "o", "n", "_", "f", "i", "e", "l", "d", "_",
               "r", "o", "l", "l", "b", "a", "c", "k", ".", "s", "q", "l">>
          [] s = "001_seed.sql" ->
             <<"0", "0", "1", "_", "s", "e", "e", "d", ".", "s", "q", "l">>
          [] s = "add_index" ->
             <<"a", "d", "d", "_", "i", "n", "d", "e", "x">>
          [] s = "rollback_fix" ->
             <<"r", "o", "l", "l", "b", "a", "c", "k", "_", "f", "i", "x">>
          [] s = "003_add_index.sql" ->
             <<"0", "0", "3", "_", "a", "d", "d", "_", "i", "n", "d", "e", "x",
               ".", "s", "q", "l">>
          [] s = "003_rollback_fix.sql" ->
             <<"0", "0", "3", "_", "r", "o", "l", "l", "b", "a", "c", "k", "_",
               "f", "i", "x", ".", "s", "q", "l">>]

\* the characters of a string
Chars(s) == CharsOf[s]

\* the string that has the given characters
Intern(chars) == CHOOSE s \in Strings : Chars(s) = chars

\* file.split('_')[0], for each file name
VersionTable == [file \in FileNames |-> Intern(SplitFirst(Chars(file)))]

\* file.split('_')[0]
VersionOf(file) == VersionTable[file]

\* file.replace(/^\d{3}_/, '').replace('.sql', ''), for each file name
NameTable ==
    [file \in FileNames |->
        Intern(RemoveFirst(StripVersionPrefix(Chars(file)), SqlExt))]

\* file.replace(/^\d{3}_/, '').replace('.sql', '')
NameOf(file) == NameTable[file]

\* the order of Array.prototype.sort() and of ORDER BY on the strings
Before == [s \in Strings, t \in Strings |-> StrLess(Chars(s), Chars(t))]

\* the directory as shipped (README, Migration File Structure)
InitialFiles ==
    {BootstrapFile, TodosFile, TodosRollbackFile, DescriptionFile,
     DescriptionRollbackFile}

\* number of revisions a file's content can go through
MaxRev == 2

\* number of directory changes (add, remove, edit) in one behaviour
MaxDirChanges == 1

\* fs.readFileSync(filePath, 'utf8'): the content of a file is identified by
\* the file and its revision
ReadFile(d, file) == <<file, d[file]>>

\* crypto.createHash('md5').update(content).digest('hex'): a digest that
\* differs exactly when the content differs
Md5(content) == <<"md5", content[1], content[2]>>

\* insert a string into a sorted sequence of strings
RECURSIVE InsertSorted(_, _)
InsertSorted(x, seq) ==
    IF seq = <<>> THEN <<x>>
    ELSE IF Before[x, Head(seq)] THEN <<x>> \o seq
    ELSE <<Head(seq)>> \o InsertSorted(x, Tail(seq))

\* the listing left in the order of readdirSync
SortFiles_none(seq) == seq

\* Array.prototype.sort() of strings, no comparator
RECURSIVE SortFiles(_)
SortFiles(seq) ==
    IF seq = <<>> THEN <<>>
    ELSE InsertSorted(Head(seq), SortFiles(Tail(seq)))

\* the elements of a set as a sequence
RECURSIVE SetToSeq(_)
SetToSeq(S) ==
    IF S = {} THEN <<>>
    ELSE LET x == CHOOSE y \in S : TRUE IN <<x>> \o SetToSeq(S \ {x})

\* a sequence back to front
Reverse(seq) == [i \in 1..Len(seq) |-> seq[Len(seq) + 1 - i]]

\* fs.readdirSync(this.migrationsPath).  The order of the listing is the
\* file system's, not the caller's: the model lists the directory in
\* ascending and in descending name order.
readdirSync(d) ==
    LET ascending == SortFiles(SetToSeq(DOMAIN d))
    IN  {ascending, Reverse(ascending)}

\* a filter that takes the files ending in _rollback.sql for the rollback
\* scripts
IsForwardFile_suffix(file) ==
    /\ MatchesMigrationPattern(Chars(file))
    /\ ~(Len(Chars(file)) >= 13
           /\ SubSeq(Chars(file), Len(Chars(file)) - 12, Len(Chars(file)))
                = <<"_">> \o RollbackWord \o SqlExt)

\* the filter of getMigrationFiles
IsForwardFile(file) ==
    /\ MatchesMigrationPattern(Chars(file))
    /\ ~Includes(Chars(file), RollbackWord)

\* the file names that pass the filter of getMigrationFiles
ForwardFiles == {file \in FileNames : IsForwardFile(file)}

\* .filter(file => file.match(...) && !file.includes('rollback')), which
\* keeps the order of the listing
RECURSIVE FilterForward(_)
FilterForward(seq) ==
    IF seq = <<>> THEN <<>>
    ELSE (IF Head(seq) \in ForwardFiles THEN <<Head(seq)>> ELSE <<>>)
         \o FilterForward(Tail(seq))

\* the object getMigrationFiles builds for one file
MigrationOf(d, file) ==
    [version  |-> VersionOf(file),
     name     |-> NameOf(file),
     file     |-> file,
     content  |-> ReadFile(d, file),
     checksum |-> Md5(ReadFile(d, file))]

\* getMigrationFiles on a directory d that readdirSync lists as listing
getMigrationFiles(d, listing) ==
    LET files == SortFiles(FilterForward(listing))
    IN  [i \in 1..Len(files) |-> MigrationOf(d, files[i])]

\* the filter without its file.includes('rollback')
IsRollbackFileOf_prefix(version, file) ==
    StartsWith(Chars(file), Chars(version) \o <<"_">>)

\* the filter of rollbackMigration
IsRollbackFileOf(version, file) ==
    /\ StartsWith(Chars(file), Chars(version) \o <<"_">>)
    /\ Includes(Chars(file), RollbackWord)

\* the file names that pass the filter of rollbackMigration, per version
RollbackFiles ==
    [version \in Strings |->
        {file \in FileNames : IsRollbackFileOf(version, file)}]

(***************************************************************************)
(* The database: the ledger table `migrations` and the schema objects the  *)
(* scripts create, with PostgreSQL's transactions on one connection.       *)
(***************************************************************************)

\* the database before the first run: no ledger table, no schema objects
EmptyDb == [tableExists |-> FALSE, ledger |-> <<>>, schema |-> {}]

NoContent == <<>>
NoRow == [version |-> "", name |-> "", checksum |-> <<>>]

\* client.query(migration.content)
ForwardStmt(content) == [kind |-> "forward", content |-> content, row |-> NoRow]
\* client.query(rollbackContent)
RollbackStmt(content) == [kind |-> "rollback", content |-> content, row |-> NoRow]
\* the INSERT with its first two parameters in the wrong order
InsertStmt_swapped(m) ==
    [kind |-> "insert", content |-> NoContent,
     row |-> [version |-> m.name, name |-> m.version, checksum |-> m.checksum]]

\* the INSERT with the file name bound as $2
InsertStmt_fileName(m) ==
    [kind |-> "insert", content |-> NoContent,
     row |-> [version |-> m.version, name |-> m.file, checksum |-> m.checksum]]

\* 'INSERT INTO migrations (version, name, checksum) VALUES ($1, $2, $3)'
InsertStmt(m) ==
    [kind |-> "insert", content |-> NoContent,
     row |-> [version |-> m.version, name |-> m.name, checksum |-> m.checksum]]
\* the DELETE with its parameter left unbound: it matches no row
DeleteStmt_noMatch(version) ==
    [kind |-> "delete", content |-> NoContent, row |-> NoRow]

\* 'DELETE FROM migrations WHERE version = $1'
DeleteStmt(version) ==
    [kind |-> "delete", content |-> NoContent,
     row |-> [version |-> version, name |-> "", checksum |-> <<>>]]

\* the rows of a table that satisfy version # v, in table order
RECURSIVE RowsWithout(_, _)
RowsWithout(rows, v) ==
    IF rows = <<>> THEN <<>>
    ELSE (IF Head(rows).version = v THEN <<>> ELSE <<Head(rows)>>)
         \o RowsWithout(Tail(rows), v)

\* the versions of a sequence of rows or of migrations
Versions(rows) == {rows[i].version : i \in 1..Len(rows)}

\* a row of the table: the values of the INSERT and executed_at, whose
\* DEFAULT CURRENT_TIMESTAMP the server fills in.  Timestamps are kept up
\* to their order: executed_at is the rank of the row's commit among the
\* commits of the rows of the table.
Stamp(row, t) ==
    [version |-> row.version, name |-> row.name, checksum |-> row.checksum,
     executed_at |-> t]

\* the rows of a table with their timestamps replaced by their ranks
Restamp(rows) == [i \in 1..Len(rows) |-> Stamp(rows[i], i)]

\* the effect of one statement on a database state.  A forward script
\* creates its schema objects (the bootstrap script creates the ledger table,
\* CREATE TABLE IF NOT EXISTS), a rollback script drops the objects of its
\* version, INSERT appends a row and DELETE removes the rows of the version.
Effect(d, stmt) ==
    CASE stmt.kind = "forward" ->
           [d EXCEPT !.tableExists = @ \/ stmt.content[1] = BootstrapFile,
                     !.schema = @ \cup {stmt.content[1]}]
      [] stmt.kind = "rollback" ->
           [d EXCEPT !.schema =
               {f \in @ : VersionOf(f) # VersionOf(stmt.content[1])}]
      [] stmt.kind = "insert" ->
           [d EXCEPT !.ledger = Append(@, Stamp(stmt.row, Len(@) + 1))]
      [] stmt.kind = "delete" ->
           [d EXCEPT !.ledger = Restamp(RowsWithout(@, stmt.row.version))]

\* the effect of a sequence of statements
RECURSIVE Effects(_, _)
Effects(d, stmts) ==
    IF stmts = <<>> THEN d ELSE Effects(Effect(d, Head(stmts)), Tail(stmts))

\* the ledger table without its UNIQUE constraint
Rejected_noUnique(d, stmt) ==
    stmt.kind \in {"insert", "delete"} /\ ~d.tableExists

\* whether the server rejects a statement in the state d that the statement
\* sees: the ledger table is missing, or the UNIQUE constraint on version
\* (000_create_migrations_table.sql) is violated
Rejected(d, stmt) ==
    CASE stmt.kind = "insert" ->
           ~d.tableExists \/ stmt.row.version \in Versions(d.ledger)
      [] stmt.kind = "delete" -> ~d.tableExists
      [] OTHER -> FALSE

\* a connection of the pool: checked out or not, and its transaction
IdleConn == [out |-> 0, open |-> FALSE, aborted |-> FALSE, stmts |-> <<>>]

\* The outcome of one awaited query: the new database, the new connection
\* state, whether the promise resolved, and the statements the query made
\* durable.
Outcome(d, c, ok, durable) == [db |-> d, conn |-> c, ok |-> ok, durable |-> durable]

\* client.query('BEGIN')
Begin(d, c, up) ==
    IF up THEN Outcome(d, [c EXCEPT !.open = TRUE], TRUE, <<>>)
    ELSE Outcome(d, c, FALSE, <<>>)

\* pool.query(text): a statement outside any transaction commits on its own
PoolQuery(d, stmt, up) ==
    IF up /\ ~Rejected(d, stmt)
    THEN [db |-> Effect(d, stmt), ok |-> TRUE, durable |-> <<stmt>>]
    ELSE [db |-> d, ok |-> FALSE, durable |-> <<>>]

\* client.query replaced by this.pool.query: the statement runs on another
\* connection and commits on its own
ClientQuery_autocommit(d, c, stmt, up) ==
    IF up /\ ~Rejected(d, stmt)
    THEN Outcome(Effect(d, stmt), c, TRUE, <<stmt>>)
    ELSE Outcome(d, [c EXCEPT !.aborted = c.open], FALSE, <<>>)

\* a server that checks no constraint: every statement it receives succeeds
ClientQuery_unchecked(d, c, stmt, up) ==
    IF c.open
    THEN IF up /\ ~c.aborted
         THEN Outcome(d, [c EXCEPT !.stmts = Append(@, stmt)], TRUE, <<>>)
         ELSE Outcome(d, [c EXCEPT !.aborted = TRUE], FALSE, <<>>)
    ELSE IF up
         THEN Outcome(Effect(d, stmt), c, TRUE, <<stmt>>)
         ELSE Outcome(d, c, FALSE, <<>>)

\* client.query(text) on the connection that holds the transaction: the
\* statement sees the transaction's own writes, joins the transaction when
\* it succeeds and aborts it when it fails
ClientQuery(d, c, stmt, up) ==
    IF c.open
    THEN IF up /\ ~c.aborted /\ ~Rejected(Effects(d, c.stmts), stmt)
         THEN Outcome(d, [c EXCEPT !.stmts = Append(@, stmt)], TRUE, <<>>)
         ELSE Outcome(d, [c EXCEPT !.aborted = TRUE], FALSE, <<>>)
    ELSE IF up /\ ~Rejected(d, stmt)
         THEN Outcome(Effect(d, stmt), c, TRUE, <<stmt>>)
         ELSE Outcome(d, c, FALSE, <<>>)

\* client.query('COMMIT'): makes the statements of the transaction durable
\* together; a COMMIT that fails leaves them undone
Commit(d, c, up) ==
    IF up /\ c.open /\ ~c.aborted
    THEN Outcome(Effects(d, c.stmts),
                 [c EXCEPT !.open = FALSE, !.stmts = <<>>], TRUE, c.stmts)
    ELSE IF up
    THEN Outcome(d, [c EXCEPT !.open = FALSE, !.aborted = FALSE,
                              !.stmts = <<>>], TRUE, <<>>)
    ELSE Outcome(d, c, FALSE, <<>>)

\* the catch block sending COMMIT in place of ROLLBACK: the statements of a
\* transaction that is not aborted become durable
Rollback_commits(d, c, up) ==
    Outcome(IF c.open /\ ~c.aborted THEN Effects(d, c.stmts) ELSE d,
            [c EXCEPT !.open = FALSE, !.aborted = FALSE, !.stmts = <<>>],
            up, <<>>)

\* client.query('ROLLBACK'): discards the statements of the transaction; when
\* the statement itself fails the connection is lost and the server
\* discards them as well
Rollback(d, c, up) ==
    Outcome(d, [c EXCEPT !.open = FALSE, !.aborted = FALSE, !.stmts = <<>>],
            up, <<>>)

\* the row put after the rows already there, whatever its version
InsertRow_append(r, rows) == Append(rows, r)

\* insert a row into a sequence of rows sorted by version
RECURSIVE InsertRow(_, _)
InsertRow(r, rows) ==
    IF rows = <<>> THEN <<r>>
    ELSE IF Before[r.version, Head(rows).version] THEN <<r>> \o rows
    ELSE <<Head(rows)>> \o InsertRow(r, Tail(rows))

\* the query without its ORDER BY: the rows in table order
OrderByVersion_none(rows) == rows

\* ORDER BY version
RECURSIVE OrderByVersion(_)
OrderByVersion(rows) ==
    IF rows = <<>> THEN <<>>
    ELSE InsertRow(rows[Len(rows)], OrderByVersion(SubSeq(rows, 1, Len(rows) - 1)))

\* getExecutedMigrations: 'SELECT version, name, executed_at, checksum FROM
\* migrations ORDER BY version'; rows is <<>> when the query fails
getExecutedMigrations(d, up) ==
    IF up /\ d.tableExists
    THEN [ok |-> TRUE, rows |-> OrderByVersion(d.ledger)]
    ELSE [ok |-> FALSE, rows |-> <<>>]

(***************************************************************************)
(* The command line processes.                                             *)
(***************************************************************************)

\* the processes that run `node migrate.js <command> [version]`
Procs == {"cli1", "cli2"}

\* process.argv[2]; "help" stands for every other word
Commands == {"migrate", "rollback", "status", "help"}

\* the version of the bootstrap file
V000 == "000"
\* a version that has files in the directory
V001 == "001"
\* a version that has none in the shipped directory
V003 == "003"

\* process.argv[3], which only rollback reads; "" is the argument left out
NoArg == ""
Args == {NoArg, V001, V003}

\* the versions of the file names
FileVersions == {VersionOf(file) : file \in FileNames}

\* live after the statements of a sequence have become durable
RECURSIVE Track(_, _)
Track(l, stmts) ==
    IF stmts = <<>> THEN l
    ELSE LET stmt == Head(stmts)
             v == IF stmt.kind \in {"forward", "rollback"}
                  THEN VersionOf(stmt.content[1]) ELSE ""
             step == CASE stmt.kind = "forward" ->
                            [l EXCEPT ![v] = IF @ = 0 THEN 1 ELSE 2]
                       [] stmt.kind = "rollback" -> [l EXCEPT ![v] = 0]
                       [] OTHER -> l
         IN  Track(step, Tail(stmts))

\* ---------------------------------------------------------------------
\* The HTTP server (server.js) and its auth middleware (requireAuth)

Undefined == "undefined"

\* the routes of the application, and one request that matches none
TodoRoutes ==
    { <<"GET", "/to-do/suggestions">>, <<"GET", "/to-do">>,
      <<"GET", "/to-do/:id">>, <<"POST", "/to-do">>,
      <<"PUT", "/to-do/:id">>, <<"DELETE", "/to-do/:id">> }

UserRoute == <<"GET", "/user">>

OpenRoutes == { <<"GET", "/health">>, <<"GET", "/">> }

Unmatched == <<"GET", "/other">>

Requests == TodoRoutes \cup {UserRoute} \cup OpenRoutes \cup {Unmatched}

\* app.get/post/put/delete(path, ...): the callbacks registered per route
Registered ==
    [r \in TodoRoutes \cup {UserRoute} \cup OpenRoutes |->
        IF r \in OpenRoutes THEN <<"handler">>
        ELSE <<"requireAuth", "handler">>]

\* req.cookies.sessionId as cookie-parser leaves it: no such cookie, an
\* empty one, or a session id
SessionIds == {Undefined, "", "s1", "s2"}

\* JavaScript truthiness of a cookie value
Truthy(sessionId) == sessionId \notin {Undefined, ""}

\* What awaiting axios.get(AUTH_SERVICE_URL/is-logged-in) gives: a 2xx
\* response whose body is an object or null, or an error with a code and,
\* when the service answered, the status of its response (0: no response).
Resolved ==
    { [kind |-> "resolved", body |-> "object", success |-> s,
       isLoggedIn |-> l, code |-> "none", status |-> 200] :
         s \in BOOLEAN, l \in BOOLEAN }
    \cup { [kind |-> "resolved", body |-> "null", success |-> FALSE,
            isLoggedIn |-> FALSE, code |-> "none", status |-> 200] }

RejectedCalls ==
    { [kind |-> "rejected", body |-> "null", success |-> FALSE,
       isLoggedIn |-> FALSE, code |-> e[1], status |-> e[2]] :
         e \in { <<"ECONNREFUSED", 0>>, <<"ECONNABORTED", 0>>,
                 <<"ERR_BAD_REQUEST", 401>>, <<"ERR_BAD_REQUEST", 403>>,
                 <<"ERR_BAD_RESPONSE", 500>> } }

AuthResponses == Resolved \cup RejectedCalls

NoAuthResponse ==
    [kind |-> "none", body |-> "null", success |-> FALSE,
     isLoggedIn |-> FALSE, code |-> "none", status |-> 0]

\* a test that trusts `success` alone
Authenticated_successOnly(authResponse) == authResponse.success

\* authResponse.data.success && authResponse.data.isLoggedIn
Authenticated(authResponse) ==
    authResponse.success /\ authResponse.isLoggedIn

\* the catch block: the status of the error response
CatchStatus(error) ==
    IF error.code = "ECONNREFUSED" THEN 503
    ELSE IF error.status = 401 THEN 401
    ELSE 500

\* what requireAuth does once axios.get has settled: call next(), or send
\* the error response with this status
AfterAuth(authResponse) ==
    IF authResponse.kind = "rejected"
    THEN [next |-> FALSE, status |-> CatchStatus(authResponse)]
    ELSE IF authResponse.body = "null"
    THEN \* reading .success of null throws a TypeError: no code, no response
         [next |-> FALSE,
          status |-> CatchStatus([code |-> "none", status |-> 0])]
    ELSE IF Authenticated(authResponse)
    THEN [next |-> TRUE, status |-> 0]
    ELSE [next |-> FALSE, status |-> 401]

\* the server between two requests
IdleHttp ==
    [pc |-> "idle", route |-> Unmatched, sessionId |-> Undefined,
     authResponse |-> NoAuthResponse, nextCalls |-> 0, authSent |-> 0,
     handlerRuns |-> 0, status |-> 0, user |-> Undefined]

VARIABLES
    dir,      \* the migrations directory: file name -> revision of its content
    changes,  \* number of directory changes so far
    touched,  \* what changed in the directory since the invocation before
              \* the current one ended
    db,       \* the committed state of the database
    run,      \* per process: the position and the locals of main()
    conn,     \* per process: the client checked out of this.pool
    hist,     \* per process: what the current invocation has done so far
    prev,     \* per process: what the invocation before it did
    live,     \* per version: how many times executeMigration has committed
              \* its forward script since rollbackMigration last committed
              \* its rollback script (2 stands for two or more)
    http      \* the request the HTTP server is serving, and how far it is

vars == <<dir, changes, touched, db, run, conn, hist, prev, live, http>>

NoCall == [kind |-> "none", version |-> "", outcome |-> "none", durable |-> <<>>]

\* main() not started
IdleRun ==
    [pc |-> "idle", cmd |-> "none", arg |-> NoArg, pending |-> <<>>, idx |-> 0,
     target |-> "", script |-> NoContent, exitCode |-> -1]

\* the errors main() can catch: a rejected promise of pg (connection or
\* statement), readFileSync of a missing file, and the two errors that
\* rollback() and rollbackMigration() construct
NoError == "none"
PgError == "pg error"
FileError == "ENOENT"
NotFoundError == "Migration not found"
NoRollbackFileError == "No rollback file found for migration"
Errors == {PgError, FileError, NotFoundError, NoRollbackFileError}

FreshHist ==
    [startRows |-> <<>>, registry |-> <<>>, pending |-> <<>>,
     attempted |-> <<>>, added |-> <<>>, removed |-> <<>>, executed |-> <<>>,
     call |-> NoCall, output |-> <<>>, result |-> "none", error |-> NoError]

NoPrev == [cmd |-> "none", arg |-> NoArg, result |-> "none", startLedger |-> {}]

Untouched == [added |-> FALSE, changed |-> FALSE]

Init ==
    /\ dir = [f \in InitialFiles |-> 1]
    /\ changes = 0
    /\ touched = Untouched
    /\ db = EmptyDb
    /\ run = [p \in Procs |-> IdleRun]
    /\ conn = [p \in Procs |-> IdleConn]
    /\ hist = [p \in Procs |-> FreshHist]
    /\ prev = [p \in Procs |-> NoPrev]
    /\ live = [v \in FileVersions |-> 0]
    /\ http = IdleHttp

(***************************************************************************)
(* The operator's edits of the migrations directory.                       *)
(***************************************************************************)

AddFile(f) ==
    /\ changes < MaxDirChanges
    /\ f \notin DOMAIN dir
    /\ dir' = [g \in DOMAIN dir \cup {f} |-> IF g = f THEN 1 ELSE dir[g]]
    /\ changes' = changes + 1
    /\ touched' = [added |-> TRUE, changed |-> TRUE]
    /\ UNCHANGED <<db, run, conn, hist, prev, live>>

RemoveFile(f) ==
    /\ changes < MaxDirChanges
    /\ f \in DOMAIN dir
    /\ dir' = [g \in DOMAIN dir \ {f} |-> dir[g]]
    /\ changes' = changes + 1
    /\ touched' = [touched EXCEPT !.changed = TRUE]
    /\ UNCHANGED <<db, run, conn, hist, prev, live>>

EditFile(f) ==
    /\ changes < MaxDirChanges
    /\ f \in DOMAIN dir
    /\ dir[f] < MaxRev
    /\ dir' = [dir EXCEPT ![f] = @ + 1]
    /\ changes' = changes + 1
    /\ touched' = [touched EXCEPT !.changed = TRUE]
    /\ UNCHANGED <<db, run, conn, hist, prev, live>>

(***************************************************************************)
(* main(): one action per awaited step.  `up` says whether the awaited     *)
(* database call goes through (FALSE: the connection or the server fails   *)
(* it).                                                                    *)
(***************************************************************************)


\* the locals of main() once the process has exited with the given code
ExitedRun(r, code) ==
    [IdleRun EXCEPT !.pc = "exited", !.cmd = r.cmd, !.arg = r.arg,
                    !.exitCode = code]

\* the command returned to main(), which leaves the switch: exit code 0
Return(p, h) ==
    /\ run' = [run EXCEPT ![p] = ExitedRun(@, 0)]
    /\ hist' = [hist EXCEPT ![p] = [h EXCEPT !.result = "returned"]]

\* the catch block of main() without its process.exit(1)
Throw_noExit(p, h, e) ==
    /\ run' = [run EXCEPT ![p] = ExitedRun(@, 0)]
    /\ hist' = [hist EXCEPT ![p] = [h EXCEPT !.result = "threw", !.error = e]]

\* the command threw the error e; main() catches: process.exit(1)
Throw(p, h, e) ==
    /\ run' = [run EXCEPT ![p] = ExitedRun(@, 1)]
    /\ hist' = [hist EXCEPT ![p] = [h EXCEPT !.result = "threw", !.error = e]]

\* what is kept of an invocation when the next one starts
Summary(r, h) ==
    [cmd |-> r.cmd, arg |-> r.arg, result |-> h.result,
     startLedger |-> Versions(h.startRows)]

\* the first step of each command
FirstStep(c) ==
    CASE c = "migrate" -> "ensure"
      [] c = "rollback" -> "rb_list"
      [] c = "status" -> "status"

\* main() up to the switch: new MigrationRunner(), runner.connect()
\* (process.exit(1) when SELECT 1 fails), then the command, or the usage
\* text and process.exit(1) for an unknown command
Start(p, c, a, up) ==
    /\ run[p].pc = "idle"
    /\ LET h == [FreshHist EXCEPT !.startRows = db.ledger]
           r == [IdleRun EXCEPT !.cmd = c, !.arg = a]
       IN  IF up /\ c # "help"
           THEN /\ run' = [run EXCEPT ![p] = [r EXCEPT !.pc = FirstStep(c)]]
                /\ hist' = [hist EXCEPT ![p] = h]
           ELSE /\ run' = [run EXCEPT ![p] = ExitedRun(r, 1)]
                /\ hist' = [hist EXCEPT ![p] =
                              [h EXCEPT !.result = IF up THEN "usage" ELSE "threw",
                                        !.error = IF up THEN NoError ELSE PgError]]
    /\ UNCHANGED <<dir, changes, touched, db, conn, prev, live>>

\* the process is gone and the operator has the prompt back: what the
\* invocation did is kept as the previous invocation
Finish(p) ==
    /\ run[p].pc = "exited"
    /\ prev' = [prev EXCEPT ![p] = Summary(run[p], hist[p])]
    /\ run' = [run EXCEPT ![p] = IdleRun]
    /\ hist' = [hist EXCEPT ![p] = FreshHist]
    /\ touched' = Untouched
    /\ UNCHANGED <<dir, changes, db, conn, live>>

\* ensureMigrationsTable: reads 000_create_migrations_table.sql (throws when
\* the file is missing) and runs it with this.pool.query
ensureMigrationsTable(p, up) ==
    /\ run[p].pc = "ensure"
    /\ IF BootstrapFile \notin DOMAIN dir
       THEN /\ Throw(p, hist[p], FileError)
            /\ UNCHANGED db
       ELSE LET stmt == ForwardStmt(ReadFile(dir, BootstrapFile))
                r == PoolQuery(db, stmt, up)
            IN  /\ db' = r.db
                /\ IF r.ok
                   THEN /\ run' = [run EXCEPT ![p].pc = "load"]
                        /\ hist' = [hist EXCEPT ![p].executed = Append(@, stmt)]
                   ELSE Throw(p, hist[p], PgError)
    /\ UNCHANGED <<dir, changes, touched, conn, prev, live>>

\* the filter left out: every migration file is pending
PendingOf_all(migrationFiles, executedMigrations) == migrationFiles

\* the filter without its negation: the executed migrations are pending
PendingOf_executed(migrationFiles, executedMigrations) ==
    SelectSeq(migrationFiles,
              LAMBDA m : m.version \in Versions(executedMigrations))

\* migrationFiles.filter(m => !executedVersions.has(m.version))
PendingOf(migrationFiles, executedMigrations) ==
    SelectSeq(migrationFiles,
              LAMBDA m : m.version \notin Versions(executedMigrations))

\* migrate() from getMigrationFiles to the start of the loop
LoadMigrations(p, up) ==
    /\ run[p].pc = "load"
    /\ \E listing \in readdirSync(dir) :
       LET migrationFiles == getMigrationFiles(dir, listing)
           executed == getExecutedMigrations(db, up)
           pendingMigrations == PendingOf(migrationFiles, executed.rows)
           h == [hist[p] EXCEPT
                   !.registry = [i \in 1..Len(migrationFiles) |->
                                    migrationFiles[i].version],
                   !.pending = [i \in 1..Len(pendingMigrations) |->
                                    pendingMigrations[i].file]]
       IN  IF ~executed.ok THEN Throw(p, hist[p], PgError)
           ELSE IF pendingMigrations = <<>> THEN Return(p, h)
           ELSE /\ run' = [run EXCEPT ![p].pc = "em_connect",
                                      ![p].pending = pendingMigrations,
                                      ![p].idx = 1]
                /\ hist' = [hist EXCEPT ![p] = h]
    /\ UNCHANGED <<dir, changes, touched, db, conn, prev, live>>

\* the migration the loop of migrate() is at
Current(p) == run[p].pending[run[p].idx]

\* a server on which no statement waits for the transaction of another
Blocked_never(p, stmt) == FALSE

\* whether a statement of p has to wait for a row lock: another open
\* transaction has written a row of the same version
Blocked(p, stmt) ==
    \E q \in Procs \ {p} :
        /\ conn[q].open /\ ~conn[q].aborted
        /\ \E i \in 1..Len(conn[q].stmts) :
              /\ conn[q].stmts[i].kind \in {"insert", "delete"}
              /\ conn[q].stmts[i].row.version = stmt.row.version

\* the step of an awaited client.query inside the try block: on success go
\* on to the next statement, on failure to the catch block
QueryStep(p, r, next, failed) ==
    /\ db' = r.db
    /\ live' = Track(live, r.durable)
    /\ conn' = [conn EXCEPT ![p] = r.conn]
    /\ run' = [run EXCEPT ![p].pc = IF r.ok THEN next ELSE failed]

\* executeMigration: const client = await this.pool.connect()
EmConnect(p, up) ==
    /\ run[p].pc = "em_connect"
    /\ LET h == [hist[p] EXCEPT
                   !.attempted = Append(@, Current(p).file),
                   !.call = [kind |-> "apply", version |-> Current(p).version,
                             outcome |-> "running", durable |-> <<>>]]
       IN  IF up
           THEN /\ conn' = [conn EXCEPT ![p].out = @ + 1]
                /\ run' = [run EXCEPT ![p].pc = "em_begin"]
                /\ hist' = [hist EXCEPT ![p] = h]
           ELSE /\ Throw(p, [h EXCEPT !.call.outcome = "threw"], PgError)
                /\ UNCHANGED conn
    /\ UNCHANGED <<dir, changes, touched, db, prev, live>>

\* await client.query('BEGIN')
EmBegin(p, up) ==
    /\ run[p].pc = "em_begin"
    /\ QueryStep(p, Begin(db, conn[p], up), "em_script", "em_rollback")
    /\ UNCHANGED <<dir, changes, touched, hist, prev>>

\* await client.query(migration.content)
EmScript(p, up) ==
    /\ run[p].pc = "em_script"
    /\ LET stmt == ForwardStmt(Current(p).content)
           r == ClientQuery(db, conn[p], stmt, up)
       IN  /\ QueryStep(p, r, "em_insert", "em_rollback")
           /\ hist' = [hist EXCEPT
                 ![p].executed = IF r.ok THEN Append(@, stmt) ELSE @,
                 ![p].call.durable = @ \o r.durable]
    /\ UNCHANGED <<dir, changes, touched, prev>>

\* await client.query('INSERT INTO migrations ...')
EmInsert(p, up) ==
    /\ run[p].pc = "em_insert"
    /\ LET stmt == InsertStmt(Current(p))
           r == ClientQuery(db, conn[p], stmt, up)
       IN  /\ ~Blocked(p, stmt)
           /\ QueryStep(p, r, "em_commit", "em_rollback")
           /\ hist' = [hist EXCEPT ![p].call.durable = @ \o r.durable]
    /\ UNCHANGED <<dir, changes, touched, prev>>

\* await client.query('COMMIT'); on success the finally block releases the
\* client, executeMigration returns and the loop goes on
EmCommit(p, up) ==
    /\ run[p].pc = "em_commit"
    /\ LET r == Commit(db, conn[p], up)
           h == [hist[p] EXCEPT !.call.durable = @ \o r.durable]
       IN  /\ db' = r.db
           /\ live' = Track(live, r.durable)
           /\ IF ~r.ok
              THEN /\ conn' = [conn EXCEPT ![p] = r.conn]
                   /\ run' = [run EXCEPT ![p].pc = "em_rollback"]
                   /\ hist' = [hist EXCEPT ![p] = h]
              ELSE LET g == [h EXCEPT !.call.outcome = "returned",
                                      !.added = Append(@, Current(p).version)]
                   IN  /\ conn' = [conn EXCEPT ![p] = [r.conn EXCEPT !.out = @ - 1]]
                       /\ IF run[p].idx < Len(run[p].pending)
                          THEN /\ run' = [run EXCEPT ![p].pc = "em_connect",
                                                     ![p].idx = @ + 1]
                               /\ hist' = [hist EXCEPT ![p] = g]
                          ELSE Return(p, g)
    /\ UNCHANGED <<dir, changes, touched, prev>>

\* a catch block that retries the migration after the ROLLBACK
EmRollback_retry(p, up) ==
    /\ run[p].pc = "em_rollback"
    /\ LET r == Rollback(db, conn[p], up)
       IN  /\ db' = r.db
           /\ conn' = [conn EXCEPT ![p] = [r.conn EXCEPT !.out = @ - 1]]
           /\ run' = [run EXCEPT ![p].pc = "em_connect"]
           /\ hist' = [hist EXCEPT ![p].call.outcome = "threw"]
    /\ UNCHANGED <<dir, changes, touched, prev, live>>

\* the catch block of migrate() without its `throw error`: the loop goes on
\* with the next pending migration
EmRollback_swallow(p, up) ==
    /\ run[p].pc = "em_rollback"
    /\ LET r == Rollback(db, conn[p], up)
           h == [hist[p] EXCEPT !.call.outcome = "threw"]
       IN  /\ db' = r.db
           /\ conn' = [conn EXCEPT ![p] = [r.conn EXCEPT !.out = @ - 1]]
           /\ IF run[p].idx < Len(run[p].pending)
              THEN /\ run' = [run EXCEPT ![p].pc = "em_connect",
                                         ![p].idx = @ + 1]
                   /\ hist' = [hist EXCEPT ![p] = h]
              ELSE Return(p, h)
    /\ UNCHANGED <<dir, changes, touched, prev, live>>

\* client.release() at the end of the catch block in place of the finally
\* block: a ROLLBACK that fails skips it
EmRollback_releaseInCatch(p, up) ==
    /\ run[p].pc = "em_rollback"
    /\ LET r == Rollback(db, conn[p], up)
       IN  /\ db' = r.db
           /\ conn' = [conn EXCEPT ![p] =
                         [r.conn EXCEPT !.out = IF r.ok THEN @ - 1 ELSE @]]
           /\ Throw(p, [hist[p] EXCEPT !.call.outcome = "threw"], PgError)
    /\ UNCHANGED <<dir, changes, touched, prev, live>>

\* catch: await client.query('ROLLBACK'); throw error; finally
\* client.release().  migrate() logs and rethrows, main() exits with 1.
EmRollback(p, up) ==
    /\ run[p].pc = "em_rollback"
    /\ LET r == Rollback(db, conn[p], up)
       IN  /\ db' = r.db
           /\ conn' = [conn EXCEPT ![p] = [r.conn EXCEPT !.out = @ - 1]]
           /\ Throw(p, [hist[p] EXCEPT !.call.outcome = "threw"], PgError)
    /\ UNCHANGED <<dir, changes, touched, prev, live>>

\* rollback() with the target resolved before the empty-ledger check
RollbackResolve_findFirst(p, up) ==
    /\ run[p].pc = "rb_list"
    /\ LET executedMigrations == getExecutedMigrations(db, up)
           rows == executedMigrations.rows
           version == IF run[p].arg # NoArg THEN run[p].arg
                      ELSE rows[Len(rows)].version
           files == RollbackFiles[version] \cap DOMAIN dir
       IN  IF ~executedMigrations.ok THEN Throw(p, hist[p], PgError)
           ELSE IF run[p].arg # NoArg /\ run[p].arg \notin Versions(rows)
                THEN Throw(p, hist[p], NotFoundError)
           ELSE IF rows = <<>> THEN Return(p, hist[p])
           ELSE IF files = {} THEN Throw(p, hist[p], NoRollbackFileError)
           ELSE \E f \in files :
                   /\ run' = [run EXCEPT ![p].pc = "rm_connect",
                                         ![p].target = version,
                                         ![p].script = ReadFile(dir, f)]
                   /\ UNCHANGED hist
    /\ UNCHANGED <<dir, changes, touched, db, conn, prev, live>>

\* rollback() without the check that the named version is in the ledger
RollbackResolve_noFind(p, up) ==
    /\ run[p].pc = "rb_list"
    /\ LET executedMigrations == getExecutedMigrations(db, up)
           rows == executedMigrations.rows
           version == IF run[p].arg # NoArg THEN run[p].arg
                      ELSE rows[Len(rows)].version
           files == RollbackFiles[version] \cap DOMAIN dir
       IN  IF ~executedMigrations.ok THEN Throw(p, hist[p], PgError)
           ELSE IF rows = <<>> THEN Return(p, hist[p])
           ELSE IF files = {} THEN Throw(p, hist[p], NoRollbackFileError)
           ELSE \E f \in files :
                   /\ run' = [run EXCEPT ![p].pc = "rm_connect",
                                         ![p].target = version,
                                         ![p].script = ReadFile(dir, f)]
                   /\ UNCHANGED hist
    /\ UNCHANGED <<dir, changes, touched, db, conn, prev, live>>

\* rollback() with a lookup of the forward file of the version, failing when
\* there is none
RollbackResolve_needsForward(p, up) ==
    /\ run[p].pc = "rb_list"
    /\ LET executedMigrations == getExecutedMigrations(db, up)
           rows == executedMigrations.rows
           version == IF run[p].arg # NoArg THEN run[p].arg
                      ELSE rows[Len(rows)].version
           files == RollbackFiles[version] \cap DOMAIN dir
           forward == {f \in ForwardFiles \cap DOMAIN dir : VersionOf(f) = version}
       IN  IF ~executedMigrations.ok THEN Throw(p, hist[p], PgError)
           ELSE IF rows = <<>> THEN Return(p, hist[p])
           ELSE IF version \notin Versions(rows)
                THEN Throw(p, hist[p], NotFoundError)
           ELSE IF forward = {} THEN Throw(p, hist[p], FileError)
           ELSE IF files = {} THEN Throw(p, hist[p], NoRollbackFileError)
           ELSE \E f \in files :
                   /\ run' = [run EXCEPT ![p].pc = "rm_connect",
                                         ![p].target = version,
                                         ![p].script = ReadFile(dir, f)]
                   /\ UNCHANGED hist
    /\ UNCHANGED <<dir, changes, touched, db, conn, prev, live>>

\* rollback() up to the await in rollbackMigration: the ledger query, the
\* empty-ledger return, the choice of the version, and the synchronous head
\* of rollbackMigration (the directory scan, the missing-file error and the
\* read of files[0], which is whichever matching file readdirSync lists
\* first)
RollbackResolve(p, up) ==
    /\ run[p].pc = "rb_list"
    /\ LET executedMigrations == getExecutedMigrations(db, up)
           rows == executedMigrations.rows
           version == IF run[p].arg # NoArg THEN run[p].arg
                      ELSE rows[Len(rows)].version
           files == RollbackFiles[version] \cap DOMAIN dir
       IN  IF ~executedMigrations.ok THEN Throw(p, hist[p], PgError)
           ELSE IF rows = <<>> THEN Return(p, hist[p])
           ELSE IF version \notin Versions(rows)
                THEN Throw(p, hist[p], NotFoundError)
           ELSE IF files = {} THEN Throw(p, hist[p], NoRollbackFileError)
           ELSE \E f \in files :
                   /\ run' = [run EXCEPT ![p].pc = "rm_connect",
                                         ![p].target = version,
                                         ![p].script = ReadFile(dir, f)]
                   /\ UNCHANGED hist
    /\ UNCHANGED <<dir, changes, touched, db, conn, prev, live>>

\* rollbackMigration: const client = await this.pool.connect()
RmConnect(p, up) ==
    /\ run[p].pc = "rm_connect"
    /\ LET h == [hist[p] EXCEPT
                   !.call = [kind |-> "rollback", version |-> run[p].target,
                             outcome |-> "running", durable |-> <<>>]]
       IN  IF up
           THEN /\ conn' = [conn EXCEPT ![p].out = @ + 1]
                /\ run' = [run EXCEPT ![p].pc = "rm_begin"]
                /\ hist' = [hist EXCEPT ![p] = h]
           ELSE /\ Throw(p, [h EXCEPT !.call.outcome = "threw"], PgError)
                /\ UNCHANGED conn
    /\ UNCHANGED <<dir, changes, touched, db, prev, live>>

\* await client.query('BEGIN')
RmBegin(p, up) ==
    /\ run[p].pc = "rm_begin"
    /\ QueryStep(p, Begin(db, conn[p], up), "rm_script", "rm_rollback")
    /\ UNCHANGED <<dir, changes, touched, hist, prev>>

\* await client.query(rollbackContent)
RmScript(p, up) ==
    /\ run[p].pc = "rm_script"
    /\ LET stmt == RollbackStmt(run[p].script)
           r == ClientQuery(db, conn[p], stmt, up)
       IN  /\ QueryStep(p, r, "rm_delete", "rm_rollback")
           /\ hist' = [hist EXCEPT
                 ![p].executed = IF r.ok THEN Append(@, stmt) ELSE @,
                 ![p].call.durable = @ \o r.durable]
    /\ UNCHANGED <<dir, changes, touched, prev>>

\* await client.query('DELETE FROM migrations WHERE version = $1', [version])
RmDelete(p, up) ==
    /\ run[p].pc = "rm_delete"
    /\ LET stmt == DeleteStmt(run[p].target)
           r == ClientQuery(db, conn[p], stmt, up)
       IN  /\ ~Blocked(p, stmt)
           /\ QueryStep(p, r, "rm_commit", "rm_rollback")
           /\ hist' = [hist EXCEPT ![p].call.durable = @ \o r.durable]
    /\ UNCHANGED <<dir, changes, touched, prev>>

\* await client.query('COMMIT'); then release, and rollback() returns
RmCommit(p, up) ==
    /\ run[p].pc = "rm_commit"
    /\ LET r == Commit(db, conn[p], up)
           h == [hist[p] EXCEPT !.call.durable = @ \o r.durable]
       IN  /\ db' = r.db
           /\ live' = Track(live, r.durable)
           /\ IF ~r.ok
              THEN /\ conn' = [conn EXCEPT ![p] = r.conn]
                   /\ run' = [run EXCEPT ![p].pc = "rm_rollback"]
                   /\ hist' = [hist EXCEPT ![p] = h]
              ELSE /\ conn' = [conn EXCEPT ![p] = [r.conn EXCEPT !.out = @ - 1]]
                   /\ Return(p, [h EXCEPT !.call.outcome = "returned",
                                          !.removed = Append(@, run[p].target)])
    /\ UNCHANGED <<dir, changes, touched, prev>>

\* catch: await client.query('ROLLBACK'); throw error; finally release
RmRollback(p, up) ==
    /\ run[p].pc = "rm_rollback"
    /\ LET r == Rollback(db, conn[p], up)
       IN  /\ db' = r.db
           /\ conn' = [conn EXCEPT ![p] = [r.conn EXCEPT !.out = @ - 1]]
           /\ Throw(p, [hist[p] EXCEPT !.call.outcome = "threw"], PgError)
    /\ UNCHANGED <<dir, changes, touched, prev, live>>

\* executedAt of a migration that is not executed
Null == "null"

\* executedMigrations.find(m => m.version === version): the first such row
Find(executedMigrations, version) ==
    executedMigrations[CHOOSE i \in 1..Len(executedMigrations) :
        /\ executedMigrations[i].version = version
        /\ \A j \in 1..(i - 1) : executedMigrations[j].version # version]

\* the ternary of status() with its branches the wrong way round
StatusLine_inverted(m, executedMigrations) ==
    [version |-> m.version, name |-> m.name,
     status |-> IF m.version \in Versions(executedMigrations)
                THEN "PENDING" ELSE "EXECUTED",
     executedAt |-> Null]

\* what status() prints for one migration: '<version>_<name>: <status>'
\* and, for an executed one, '  Executed: <executed_at>'
StatusLine(m, executedMigrations) ==
    LET isExecuted == m.version \in Versions(executedMigrations)
    IN  [version |-> m.version, name |-> m.name,
         status |-> IF isExecuted THEN "EXECUTED" ELSE "PENDING",
         executedAt |-> IF isExecuted
                        THEN Find(executedMigrations, m.version).executed_at
                        ELSE Null]

\* a status() that creates the ledger table first, as migrate() does
Status_ensuring(p, up) ==
    /\ run[p].pc = "status"
    /\ \E listing \in readdirSync(dir) :
       LET migrationFiles == getMigrationFiles(dir, listing)
           ensured == PoolQuery(db, ForwardStmt(<<BootstrapFile, 1>>), up)
           executed == getExecutedMigrations(ensured.db, up)
       IN  /\ db' = ensured.db
           /\ IF ~executed.ok THEN Throw(p, hist[p], PgError)
              ELSE Return(p, [hist[p] EXCEPT
                      !.registry = [i \in 1..Len(migrationFiles) |->
                                       migrationFiles[i].version],
                      !.output = [i \in 1..Len(migrationFiles) |->
                                    StatusLine(migrationFiles[i], executed.rows)]])
    /\ UNCHANGED <<dir, changes, touched, conn, prev, live>>

\* status()
Status(p, up) ==
    /\ run[p].pc = "status"
    /\ \E listing \in readdirSync(dir) :
       LET migrationFiles == getMigrationFiles(dir, listing)
           executed == getExecutedMigrations(db, up)
       IN  IF ~executed.ok THEN Throw(p, hist[p], PgError)
           ELSE Return(p, [hist[p] EXCEPT
                   !.registry = [i \in 1..Len(migrationFiles) |->
                                    migrationFiles[i].version],
                   !.output = [i \in 1..Len(migrationFiles) |->
                                 StatusLine(migrationFiles[i], executed.rows)]])
    /\ UNCHANGED <<dir, changes, touched, db, conn, prev, live>>

(***************************************************************************)
(* Specifications.                                                         *)
(***************************************************************************)

\* one step of the process p
Step(p) ==
    \/ /\ run[p].pc = "idle"
       /\ \E c \in Commands, a \in Args, up \in BOOLEAN :
             /\ c # "rollback" => a = NoArg
             /\ Start(p, c, a, up)
       /\ UNCHANGED http
    \/ Finish(p) /\ UNCHANGED http
    \/ \E up \in BOOLEAN : ensureMigrationsTable(p, up) /\ UNCHANGED http
    \/ \E up \in BOOLEAN : LoadMigrations(p, up) /\ UNCHANGED http
    \/ \E up \in BOOLEAN : EmConnect(p, up) /\ UNCHANGED http
    \/ \E up \in BOOLEAN : EmBegin(p, up) /\ UNCHANGED http
    \/ \E up \in BOOLEAN : EmScript(p, up) /\ UNCHANGED http
    \/ \E up \in BOOLEAN : EmInsert(p, up) /\ UNCHANGED http
    \/ \E up \in BOOLEAN : EmCommit(p, up) /\ UNCHANGED http
    \/ \E up \in BOOLEAN : EmRollback(p, up) /\ UNCHANGED http
    \/ \E up \in BOOLEAN : RollbackResolve(p, up) /\ UNCHANGED http
    \/ \E up \in BOOLEAN : RmConnect(p, up) /\ UNCHANGED http
    \/ \E up \in BOOLEAN : RmBegin(p, up) /\ UNCHANGED http
    \/ \E up \in BOOLEAN : RmScript(p, up) /\ UNCHANGED http
    \/ \E up \in BOOLEAN : RmDelete(p, up) /\ UNCHANGED http
    \/ \E up \in BOOLEAN : RmCommit(p, up) /\ UNCHANGED http
    \/ \E up \in BOOLEAN : RmRollback(p, up) /\ UNCHANGED http
    \/ \E up \in BOOLEAN : Status(p, up) /\ UNCHANGED http

\* no command is running
Quiet == \A p \in Procs : run[p].pc = "idle"

\* one edit of the migrations directory, between two commands
Edit ==
    /\ Quiet
    /\ \/ \E f \in OperatorFiles : AddFile(f)
       \/ \E f \in OperatorFiles : RemoveFile(f)
       \/ \E f \in OperatorFiles : EditFile(f)
    /\ UNCHANGED http

\* the process of the single operator
Operator == "cli1"

\* One invocation at a time (the runner's stated operating assumption): the
\* operator runs commands one after the other and edits the directory.
Next == Step(Operator) \/ Edit

Spec == Init /\ [][Next]_vars

\* the directory as the repository ships it
ShippedDir == [f \in InitialFiles |-> 1]

\* the database after executeMigration has committed the migrations of a
\* sequence, one transaction each
RECURSIVE Applied(_, _)
Applied(d, migrations) ==
    IF migrations = <<>> THEN d
    ELSE Applied(Effects(d, <<ForwardStmt(Head(migrations).content),
                              InsertStmt(Head(migrations))>>),
                 Tail(migrations))

\* the database after a first `migrate` on the shipped directory that
\* returned: the bootstrap of ensureMigrationsTable, then every migration
MigratedDb ==
    LET listing == CHOOSE l \in readdirSync(ShippedDir) : TRUE
        bootstrap == ForwardStmt(ReadFile(ShippedDir, BootstrapFile))
    IN  Applied(Effect(EmptyDb, bootstrap),
                getMigrationFiles(ShippedDir, listing))

\* Two operators, or two deployment jobs, each run one migrate or one
\* rollback against the same database at the same time, on a database that
\* is new or that a first migrate has brought up to date; the directory is
\* left alone.
InitConc ==
    /\ dir = ShippedDir
    /\ changes = 0
    /\ touched = Untouched
    /\ db \in {EmptyDb, MigratedDb}
    /\ run = [p \in Procs |-> IdleRun]
    /\ conn = [p \in Procs |-> IdleConn]
    /\ hist = [p \in Procs |-> FreshHist]
    /\ prev = [p \in Procs |-> NoPrev]
    /\ live = [v \in FileVersions |->
                 IF v \in Versions(db.ledger) THEN 1 ELSE 0]
    /\ http = IdleHttp

\* one step of the one command of the process p
StepConc(p) ==
    \/ /\ run[p].pc = "idle" /\ prev[p].cmd = "none"
       /\ \E c \in {"migrate", "rollback"}, a \in Args, up \in BOOLEAN :
             /\ c # "rollback" => a = NoArg
             /\ Start(p, c, a, up)
       /\ UNCHANGED http
    \/ Finish(p) /\ UNCHANGED http
    \/ \E up \in BOOLEAN : ensureMigrationsTable(p, up) /\ UNCHANGED http
    \/ \E up \in BOOLEAN : LoadMigrations(p, up) /\ UNCHANGED http
    \/ \E up \in BOOLEAN : EmConnect(p, up) /\ UNCHANGED http
    \/ \E up \in BOOLEAN : EmBegin(p, up) /\ UNCHANGED http
    \/ \E up \in BOOLEAN : EmScript(p, up) /\ UNCHANGED http
    \/ \E up \in BOOLEAN : EmInsert(p, up) /\ UNCHANGED http
    \/ \E up \in BOOLEAN : EmCommit(p, up) /\ UNCHANGED http
    \/ \E up \in BOOLEAN : EmRollback(p, up) /\ UNCHANGED http
    \/ \E up \in BOOLEAN : RollbackResolve(p, up) /\ UNCHANGED http
    \/ \E up \in BOOLEAN : RmConnect(p, up) /\ UNCHANGED http
    \/ \E up \in BOOLEAN : RmBegin(p, up) /\ UNCHANGED http
    \/ \E up \in BOOLEAN : RmScript(p, up) /\ UNCHANGED http
    \/ \E up \in BOOLEAN : RmDelete(p, up) /\ UNCHANGED http
    \/ \E up \in BOOLEAN : RmCommit(p, up) /\ UNCHANGED http
    \/ \E up \in BOOLEAN : RmRollback(p, up) /\ UNCHANGED http

NextConc == \E p \in Procs : StepConc(p)

SpecConc == InitConc /\ [][NextConc]_vars

\* ---------------------------------------------------------------------
\* One request through the server

\* the state of the migration runner, which the server never touches
cliVars == <<dir, changes, touched, db, run, conn, hist, prev, live>>

\* a request arrives: Express picks the first callback of its route, or the
\* 404 handler when no route matches
Receive(route, sessionId) ==
    /\ http.pc = "idle"
    /\ http' = [IdleHttp EXCEPT
                  !.route = route,
                  !.sessionId = sessionId,
                  !.pc = IF route \notin DOMAIN Registered THEN "notFound"
                         ELSE Registered[route][1]]
    /\ UNCHANGED cliVars

\* requireAuth up to the await: no session cookie, 401; otherwise the call
\* to the auth service is under way
requireAuth ==
    /\ http.pc = "requireAuth"
    /\ IF ~Truthy(http.sessionId)
       THEN http' = [http EXCEPT !.pc = "done", !.status = 401,
                                 !.authSent = @ + 1]
       ELSE http' = [http EXCEPT !.pc = "awaitAuth"]
    /\ UNCHANGED cliVars

\* requireAuth after the await
requireAuthResume(authResponse) ==
    /\ http.pc = "awaitAuth"
    /\ LET after == AfterAuth(authResponse)
           h == [http EXCEPT !.authResponse = authResponse]
       IN  IF after.next
           THEN http' = [h EXCEPT !.user = "u1", !.nextCalls = @ + 1,
                                  !.pc = "handler"]
           ELSE http' = [h EXCEPT !.pc = "done", !.status = after.status,
                                  !.authSent = @ + 1]
    /\ UNCHANGED cliVars

\* the route handler runs and answers
Handler(status) ==
    /\ http.pc = "handler"
    /\ http' = [http EXCEPT !.pc = "done", !.status = status,
                            !.handlerRuns = @ + 1]
    /\ UNCHANGED cliVars

\* app.use('*'): no route matched
NotFound ==
    /\ http.pc = "notFound"
    /\ http' = [http EXCEPT !.pc = "done", !.status = 404]
    /\ UNCHANGED cliVars

\* the response is out; the server waits for the next request
Respond ==
    /\ http.pc = "done"
    /\ http' = IdleHttp
    /\ UNCHANGED cliVars

HandlerStatuses == {200, 201, 400, 404, 500}

NextAuth ==
    \/ \E route \in Requests, sessionId \in SessionIds :
          Receive(route, sessionId)
    \/ requireAuth
    \/ \E authResponse \in AuthResponses : requireAuthResume(authResponse)
    \/ \E status \in HandlerStatuses : Handler(status)
    \/ NotFound
    \/ Respond

SpecAuth == Init /\ [][NextAuth]_vars

\* The directories of the file name tests: the shipped one, with or without
\* the two files of version 003, and the shipped one without the forward
\* file of 001.
DirChoices ==
    {[f \in InitialFiles \cup X |-> 1] : X \in SUBSET {IndexFile, RollbackFixFile}}
    \cup {[f \in InitialFiles \ {TodosFile} |-> 1]}

InitFiles ==
    /\ dir \in DirChoices
    /\ changes = 0
    /\ touched = Untouched
    /\ db = EmptyDb
    /\ run = [p \in Procs |-> IdleRun]
    /\ conn = [p \in Procs |-> IdleConn]
    /\ hist = [p \in Procs |-> FreshHist]
    /\ prev = [p \in Procs |-> NoPrev]
    /\ live = [v \in FileVersions |-> 0]
    /\ http = IdleHttp

\* the operator runs commands one after the other on a directory that is
\* left alone
NextFiles == Step(Operator)

SpecFiles == InitFiles /\ [][NextFiles]_vars

TypeOK ==
    /\ DOMAIN dir \subseteq FileNames
    /\ changes \in 0..MaxDirChanges
    /\ \A p \in Procs : conn[p].out \in 0..1

(***************************************************************************)
(* Properties.                                                             *)
(***************************************************************************)

\* whether the statements a call made durable include a script of the kind
DurableScript(call, kind) ==
    \E i \in 1..Len(call.durable) : call.durable[i].kind = kind

\* whether the statements a call made durable include the ledger statement
\* of the kind for the call's version
DurableRow(call, kind) ==
    \E i \in 1..Len(call.durable) :
        /\ call.durable[i].kind = kind
        /\ call.durable[i].row.version = call.version

\* whether the invocation of p ran, inside a transaction, a script of the
\* kind for the version of its last call
RanScript(p, kind) ==
    \E i \in 1..Len(hist[p].executed) :
        /\ hist[p].executed[i].kind = kind
        /\ VersionOf(hist[p].executed[i].content[1]) = hist[p].call.version
        /\ (kind = "forward" /\ hist[p].call.version = V000) => i > 1

\* C1: when executeMigration(m) has returned or thrown, wherever it failed,
\* either the forward script and the ledger row of m.version were committed
\* together (and are in the database), or the call committed neither.
C1_ApplyAllOrNothing ==
    \A p \in Procs :
        LET call == hist[p].call
        IN  (call.kind = "apply" /\ call.outcome \in {"returned", "threw"}) =>
              \/ /\ DurableScript(call, "forward")
                 /\ DurableRow(call, "insert")
                 /\ call.version \in Versions(db.ledger)
              \/ /\ ~DurableScript(call, "forward")
                 /\ ~DurableRow(call, "insert")

\* executeMigration threw after its forward script had run in the transaction
C1_Witness ==
    \E p \in Procs :
        /\ hist[p].call.kind = "apply"
        /\ hist[p].call.outcome = "threw"
        /\ RanScript(p, "forward")

\* C2: when rollbackMigration(v) has returned or thrown, either the rollback
\* script was committed and the ledger row of v is gone, or the script's
\* effects were discarded and the row is still there.
C2_RollbackAllOrNothing ==
    \A p \in Procs :
        LET call == hist[p].call
        IN  (call.kind = "rollback" /\ call.outcome \in {"returned", "threw"}) =>
              \/ /\ DurableScript(call, "rollback")
                 /\ call.version \notin Versions(db.ledger)
              \/ /\ ~DurableScript(call, "rollback")
                 /\ call.version \in Versions(db.ledger)

\* rollbackMigration threw after its rollback script had run in the
\* transaction
C2_Witness ==
    \E p \in Procs :
        /\ hist[p].call.kind = "rollback"
        /\ hist[p].call.outcome = "threw"
        /\ RanScript(p, "rollback")

\* the rows of a table without their timestamps
Unstamped(rows) ==
    [i \in 1..Len(rows) |->
        [version |-> rows[i].version, name |-> rows[i].name,
         checksum |-> rows[i].checksum]]

\* the elements of a sequence
Range(seq) == {seq[i] : i \in 1..Len(seq)}

\* the versions of a sequence of file names, in the order of the sequence
VersionsOfFiles(files) == [i \in 1..Len(files) |-> VersionOf(files[i])]

\* the highest of a non-empty set of versions
MaxVersion(S) == CHOOSE v \in S : \A w \in S : w = v \/ Before[w, v]

\* C3: when the k-th pending migration of migrate() fails, the process has
\* exited with code 1, the migrations attempted are exactly the first k
\* pending ones, and the ledger holds the rows it had at the start plus the
\* first k-1 pending versions.
C3_FailFast ==
    \A p \in Procs :
        LET h == hist[p]
            k == Len(h.attempted)
        IN  (run[p].cmd = "migrate" /\ h.call.kind = "apply"
             /\ h.call.outcome = "threw") =>
              /\ run[p].pc = "exited" /\ run[p].exitCode = 1
              /\ h.result = "threw"
              /\ h.attempted = SubSeq(h.pending, 1, k)
              /\ h.added = VersionsOfFiles(SubSeq(h.pending, 1, k - 1))
              /\ Versions(db.ledger) =
                   Versions(h.startRows) \cup Range(h.added)

\* the third of four pending migrations failed
C3_Witness ==
    \E p \in Procs :
        /\ run[p].cmd = "migrate"
        /\ hist[p].call.outcome = "threw"
        /\ Len(hist[p].pending) = 4
        /\ Len(hist[p].attempted) = 3
        /\ Len(hist[p].added) = 2

\* C4: every version that migrate() commits is higher than the versions it
\* committed before in the same run, and at that moment every lower version
\* of the registry is already in the ledger.
C4_AscendingOrder ==
    [][\A p \in Procs :
          Len(hist'[p].added) = Len(hist[p].added) + 1 =>
            LET v == hist'[p].added[Len(hist'[p].added)]
            IN  /\ \A w \in Range(hist[p].added) : Before[w, v]
                /\ \A w \in Range(hist[p].registry) :
                      Before[w, v] => w \in Versions(db.ledger)]_vars

\* migrate() has committed three versions in one run
C4_Witness == \E p \in Procs : Len(hist[p].added) = 3

\* the forward scripts an invocation has run
ForwardRuns(p) ==
    {i \in 1..Len(hist[p].executed) : hist[p].executed[i].kind = "forward"}

\* C5 as stated: a migrate() that directly follows a migrate(), no file
\* added in between, adds no ledger row and commits no forward script.
C5_Original ==
    \A p \in Procs :
        (run[p].cmd = "migrate" /\ prev[p].cmd = "migrate" /\ ~touched.added) =>
          /\ Versions(db.ledger) = Versions(hist[p].startRows)
          /\ ForwardRuns(p) = {}

\* C5, amended: a migrate() that directly follows a migrate() that returned,
\* no file added in between, calls executeMigration for no version and
\* leaves the ledger rows as they were; the only script it runs is the
\* bootstrap script of ensureMigrationsTable.
C5_Idempotent ==
    \A p \in Procs :
        (run[p].cmd = "migrate" /\ prev[p].cmd = "migrate"
         /\ prev[p].result = "returned" /\ ~touched.added) =>
          /\ hist[p].attempted = <<>>
          /\ hist[p].added = <<>>
          /\ db.ledger = hist[p].startRows
          /\ \A i \in ForwardRuns(p) :
                hist[p].executed[i].content[1] = BootstrapFile

\* the second of two migrate() calls has returned, the first one having
\* applied the three versions
C5_Witness ==
    \E p \in Procs :
        /\ run[p].cmd = "migrate" /\ hist[p].result = "returned"
        /\ prev[p].cmd = "migrate" /\ prev[p].result = "returned"
        /\ prev[p].startLedger = {}
        /\ Cardinality(Versions(db.ledger)) = 3
        /\ ~touched.added

\* C6 as stated: migrate() never runs the forward script of a version that
\* is in the ledger when the invocation starts.
C6_Original ==
    \A p \in Procs :
        run[p].cmd = "migrate" =>
          \A i \in ForwardRuns(p) :
              VersionOf(hist[p].executed[i].content[1])
                  \notin Versions(hist[p].startRows)

\* C6, amended: executeMigration never commits the forward script of a
\* version twice without a committed rollback of that version in between,
\* and migrate() never calls executeMigration for a version that is in the
\* ledger when the invocation starts.
C6_NoSilentReapply ==
    /\ \A v \in FileVersions : live[v] <= 1
    /\ \A p \in Procs :
          run[p].cmd = "migrate" =>
            \A f \in Range(hist[p].attempted) :
                VersionOf(f) \notin Versions(hist[p].startRows)

\* migrate() has applied again a version that the rollback before it removed
C6_Witness ==
    \E p \in Procs :
        /\ run[p].cmd = "migrate"
        /\ prev[p].cmd = "rollback" /\ prev[p].result = "returned"
        /\ hist[p].added # <<>>
        /\ hist[p].added[1] \in prev[p].startLedger
        /\ hist[p].startRows # <<>>

\* the versions of the registry of a directory
RegistryVersions(d) == {VersionOf(f) : f \in ForwardFiles \cap DOMAIN d}

\* every version of the ledger is a version of the registry
LedgerInRegistry(d, database) ==
    Versions(database.ledger) \subseteq RegistryVersions(d)

\* C7: no step of migrate, rollback or status, and no edit of the directory
\* that removes no file, takes a ledger whose versions are all in the
\* registry to one that has a version outside the registry.
C7_LedgerInRegistry ==
    [][(LedgerInRegistry(dir, db) /\ DOMAIN dir \subseteq DOMAIN dir')
          => LedgerInRegistry(dir', db')]_vars

\* a rollback has removed a row and the ledger still has rows, all of them
\* of the registry
C7_Witness ==
    \E p \in Procs :
        /\ hist[p].removed # <<>>
        /\ db.ledger # <<>>
        /\ LedgerInRegistry(dir, db)

\* C8: after a migrate() that returned, the versions of the ledger are those
\* it had at the start and those of the registry, each pending version
\* having been added by one executeMigration.
C8_MigrateCompletes ==
    \A p \in Procs :
        (run[p].cmd = "migrate" /\ hist[p].result = "returned") =>
          /\ Versions(db.ledger) =
               Versions(hist[p].startRows) \cup Range(hist[p].registry)
          /\ hist[p].added = VersionsOfFiles(hist[p].pending)
          /\ Range(hist[p].added) =
               Range(hist[p].registry) \ Versions(hist[p].startRows)
          /\ Len(db.ledger) = Len(hist[p].startRows) + Len(hist[p].added)
          /\ Len(db.ledger) = Cardinality(Versions(db.ledger))

\* migrate() has returned on an empty ledger and the registry 000, 001, 002
C8_Witness ==
    \E p \in Procs :
        /\ run[p].cmd = "migrate" /\ hist[p].result = "returned"
        /\ hist[p].startRows = <<>>
        /\ hist[p].registry = <<"000", "001", "002">>
        /\ Versions(db.ledger) = {"000", "001", "002"}

\* the invocation before the current one was a rollback without a version
\* that returned on a non-empty ledger
AfterPlainRollback(p) ==
    /\ prev[p].cmd = "rollback" /\ prev[p].arg = NoArg
    /\ prev[p].result = "returned" /\ prev[p].startLedger # {}

\* C9 as stated: after rollback() and then migrate(), the directory left
\* alone, the versions of the ledger are those before the rollback.
C9_Original ==
    \A p \in Procs :
        (run[p].cmd = "migrate" /\ hist[p].result = "returned"
         /\ AfterPlainRollback(p) /\ ~touched.changed) =>
          Versions(db.ledger) = prev[p].startLedger

\* C9, amended: a rollback() without a version that returns on a non-empty
\* ledger removes the row of the highest version, leaves the other rows and
\* runs one rollback script of that version; a migrate() that returns next
\* leaves the ledger with the versions before the rollback less that
\* version, plus those of the registry, and has applied that version again
\* when it is in the registry.
C9_RoundTrip ==
    \A p \in Procs :
        /\ (run[p].cmd = "rollback" /\ run[p].arg = NoArg
            /\ hist[p].result = "returned" /\ hist[p].startRows # <<>>) =>
              LET v == MaxVersion(Versions(hist[p].startRows))
              IN  /\ Unstamped(db.ledger) =
                       Unstamped(RowsWithout(hist[p].startRows, v))
                  /\ hist[p].removed = <<v>>
                  /\ Len(hist[p].executed) = 1
                  /\ hist[p].executed[1].kind = "rollback"
                  /\ hist[p].executed[1].content[1] \in RollbackFiles[v]
        /\ (run[p].cmd = "migrate" /\ hist[p].result = "returned"
            /\ AfterPlainRollback(p)) =>
              LET v == MaxVersion(prev[p].startLedger)
              IN  /\ Versions(db.ledger) =
                       (prev[p].startLedger \ {v}) \cup Range(hist[p].registry)
                  /\ v \in Range(hist[p].registry) =>
                       /\ v \in Range(hist[p].added)
                       /\ prev[p].startLedger \subseteq Versions(db.ledger)

\* rollback() and then migrate() have brought the ledger back to the versions
\* it had
C9_Witness ==
    \E p \in Procs :
        /\ run[p].cmd = "migrate" /\ hist[p].result = "returned"
        /\ AfterPlainRollback(p)
        /\ Versions(db.ledger) = prev[p].startLedger
        /\ hist[p].added # <<>>

\* C10: the version that a rollback without a version removes is the one of
\* the ledger row that was committed last (the last row in table order).
C10_MostRecentlyApplied ==
    \A p \in Procs :
        (run[p].cmd = "rollback" /\ run[p].arg = NoArg
         /\ hist[p].result = "returned" /\ hist[p].startRows # <<>>) =>
          hist[p].removed =
              <<hist[p].startRows[Len(hist[p].startRows)].version>>

\* the versions of a sequence of rows, in the order of the sequence
VersionsOfRows(rows) == [i \in 1..Len(rows) |-> rows[i].version]

\* whether a sequence of versions is strictly ascending
Ascending(versions) ==
    \A i, j \in 1..Len(versions) : i < j => Before[versions[i], versions[j]]

\* C11 as stated: of two ledger rows the one with the lower version was
\* committed no later than the other.
C11_Original ==
    \A i, j \in 1..Len(db.ledger) :
        Before[db.ledger[i].version, db.ledger[j].version] =>
            db.ledger[i].executed_at <= db.ledger[j].executed_at

\* C11, amended: the ledger query returns the rows in ascending version
\* order, and the rows that one migrate() commits come after the rows the
\* ledger had at its start, in ascending version order.
C11_CommitOrder ==
    /\ Ascending(VersionsOfRows(OrderByVersion(db.ledger)))
    /\ \A p \in Procs :
          run[p].cmd = "migrate" =>
            LET n == Len(hist[p].startRows)
            IN  /\ Len(db.ledger) = n + Len(hist[p].added)
                /\ SubSeq(db.ledger, 1, n) = hist[p].startRows
                /\ VersionsOfRows(SubSeq(db.ledger, n + 1, Len(db.ledger)))
                     = hist[p].added
                /\ Ascending(hist[p].added)

\* a migrate() has committed a version lower than one the ledger already
\* had: the table order is not the version order, the query result is
C11_Witness ==
    \E p \in Procs :
        /\ run[p].cmd = "migrate"
        /\ hist[p].added # <<>>
        /\ ~Ascending(VersionsOfRows(db.ledger))
        /\ Ascending(VersionsOfRows(OrderByVersion(db.ledger)))

\* the version a rollback invocation is about: the one named, or the
\* highest of the ledger
TargetVersion(p) ==
    IF run[p].arg # NoArg THEN run[p].arg
    ELSE MaxVersion(Versions(hist[p].startRows))

\* the rollback counterparts of a version that are in the directory
Counterparts(v) ==
    {f \in {TodosRollbackFile, DescriptionRollbackFile} \cap DOMAIN dir :
        VersionOf(f) = v}

\* the invocation of p has checked out no connection, opened no
\* transaction, run no script and left every ledger row as it was
Untouching(p) ==
    /\ hist[p].call.kind = "none"
    /\ conn[p] = IdleConn
    /\ hist[p].executed = <<>>
    /\ db.ledger = hist[p].startRows

\* C12: a rollback whose target version is in the ledger and has no
\* rollback counterpart in the directory fails (with the missing-file error
\* as soon as the ledger query has answered) and acquires no connection,
\* opens no transaction, runs no script and changes no ledger row; and the
\* missing-file error is thrown in no other case.
C12_MissingRollbackScript ==
    \A p \in Procs :
        /\ (/\ run[p].cmd = "rollback"
            /\ hist[p].startRows # <<>>
            /\ TargetVersion(p) \in Versions(hist[p].startRows)
            /\ Counterparts(TargetVersion(p)) = {}) =>
              /\ Untouching(p)
              /\ run[p].pc = "exited" =>
                    /\ hist[p].result = "threw"
                    /\ run[p].exitCode = 1
                    /\ hist[p].error \in {NoRollbackFileError, PgError}
        /\ hist[p].error = NoRollbackFileError =>
              /\ run[p].cmd = "rollback"
              /\ TargetVersion(p) \in Versions(hist[p].startRows)
              /\ Counterparts(TargetVersion(p)) = {}
              /\ Untouching(p)

\* a rollback of version 001, which is in the ledger, has failed for want
\* of a rollback file
C12_Witness ==
    \E p \in Procs :
        /\ run[p].cmd = "rollback" /\ run[p].pc = "exited"
        /\ hist[p].error = NoRollbackFileError
        /\ TargetVersion(p) = V001
        /\ V001 \in Versions(db.ledger)

DuplicateVersions(p) ==
    Len(hist[p].registry) # Cardinality(Range(hist[p].registry))

\* C14: a migrate() that finds two non-rollback files with the same version
\* prefix fails before any apply begins: it calls executeMigration for no
\* file and adds no ledger row.
C14_InvalidDefinition ==
    \A p \in Procs :
        (run[p].cmd = "migrate" /\ DuplicateVersions(p)) =>
          /\ hist[p].attempted = <<>>
          /\ hist[p].added = <<>>
          /\ db.ledger = hist[p].startRows

\* the forward files of a version that are in the directory
ForwardFilesOf(v) == {f \in ForwardFiles \cap DOMAIN dir : VersionOf(f) = v}

\* a rollback whose target version is in the ledger
RollbackOfApplied(p) ==
    /\ run[p].cmd = "rollback"
    /\ hist[p].startRows # <<>>
    /\ TargetVersion(p) \in Versions(hist[p].startRows)

\* C15 as stated: a rollback whose target version is in the ledger and has
\* no forward file in the directory fails, runs no rollback script and
\* leaves the ledger unchanged.
C15_Original ==
    \A p \in Procs :
        (RollbackOfApplied(p) /\ ForwardFilesOf(TargetVersion(p)) = {}) =>
          /\ hist[p].executed = <<>>
          /\ db.ledger = hist[p].startRows
          /\ run[p].pc = "exited" => hist[p].result = "threw"

\* C15, amended: a rollback whose target version is in the ledger needs a
\* rollback file of that version and nothing else of the directory: when
\* there is one, the forward file being there or not, the rollback fails
\* only on a database error, and when it returns it has run one rollback
\* script of the version and removed the row of the version and no other.
C15_RollbackNeedsRollbackFile ==
    \A p \in Procs :
        (RollbackOfApplied(p) /\ Counterparts(TargetVersion(p)) # {}
         /\ run[p].pc = "exited") =>
          /\ hist[p].result \in {"returned", "threw"}
          /\ hist[p].result = "threw" =>
                /\ hist[p].error = PgError
                /\ db.ledger = hist[p].startRows
          /\ hist[p].result = "returned" =>
                /\ hist[p].removed = <<TargetVersion(p)>>
                /\ Unstamped(db.ledger) =
                     Unstamped(RowsWithout(hist[p].startRows, TargetVersion(p)))
                /\ Len(hist[p].executed) = 1
                /\ hist[p].executed[1].kind = "rollback"
                /\ hist[p].executed[1].content[1]
                      \in Counterparts(TargetVersion(p))

\* rollback 001 has returned although no forward file of 001 is in the
\* directory
C15_Witness ==
    \E p \in Procs :
        /\ RollbackOfApplied(p) /\ TargetVersion(p) = V001
        /\ ForwardFilesOf(V001) = {}
        /\ hist[p].result = "returned"
        /\ hist[p].removed = <<V001>>

\* the ledger row of a version
RowOf(v) == db.ledger[CHOOSE i \in 1..Len(db.ledger) : db.ledger[i].version = v]

\* C16: a status() that returns has printed one line per forward file of the
\* directory, in ascending version order, each EXECUTED with the executed_at
\* of the ledger row of its version when that version is in the ledger and
\* PENDING otherwise.
C16_StatusReport ==
    \A p \in Procs :
        (run[p].cmd = "status" /\ hist[p].result = "returned") =>
          LET out == hist[p].output
              files == ForwardFiles \cap DOMAIN dir
          IN  /\ Len(out) = Cardinality(files)
              /\ {<<out[i].version, out[i].name>> : i \in 1..Len(out)} =
                   {<<VersionOf(f), NameOf(f)>> : f \in files}
              /\ \A i, j \in 1..Len(out) :
                    i < j => ~Before[out[j].version, out[i].version]
              /\ \A i \in 1..Len(out) :
                    IF out[i].version \in Versions(db.ledger)
                    THEN /\ out[i].status = "EXECUTED"
                         /\ out[i].executedAt = RowOf(out[i].version).executed_at
                    ELSE /\ out[i].status = "PENDING"
                         /\ out[i].executedAt = Null

\* status() on the registry 000, 001, 002 and the ledger 000, 001 has
\* printed 000 EXECUTED, 001 EXECUTED, 002 PENDING
C16_Witness ==
    \E p \in Procs :
        /\ run[p].cmd = "status" /\ hist[p].result = "returned"
        /\ Versions(db.ledger) = {"000", "001"}
        /\ [i \in 1..Len(hist[p].output) |->
               <<hist[p].output[i].version, hist[p].output[i].status>>]
             = << <<"000", "EXECUTED">>, <<"001", "EXECUTED">>,
                  <<"002", "PENDING">> >>

\* the step is the COMMIT of an executeMigration of version v that returns
AppliedBy(p, v) ==
    /\ run[p].cmd = "migrate" /\ run[p].pc = "em_commit"
    /\ Current(p).version = v
    /\ hist'[p].call = [kind |-> "apply", version |-> v,
                        outcome |-> "returned", durable |-> hist'[p].call.durable]
    /\ hist'[p].added = Append(hist[p].added, v)

\* the step is the COMMIT of a rollbackMigration of version v that returns
RolledBackBy(p, v) ==
    /\ run[p].cmd = "rollback" /\ run[p].pc = "rm_commit"
    /\ run[p].target = v
    /\ hist'[p].call.kind = "rollback" /\ hist'[p].call.version = v
    /\ hist'[p].call.outcome = "returned"
    /\ hist'[p].result = "returned"

\* C17: the ledger row of a version appears only in the step in which an
\* executeMigration of that version commits and returns, and disappears
\* only in the step in which a rollbackMigration of that version commits and
\* returns; every other step (of a failing migrate or rollback, of status,
\* of the apply or rollback of another version, of a directory edit) leaves
\* the version as it was.
C17_VersionStateMachine ==
    [][/\ \A v \in Versions(db'.ledger) \ Versions(db.ledger) :
             \E p \in Procs : AppliedBy(p, v)
       /\ \A v \in Versions(db.ledger) \ Versions(db'.ledger) :
             \E p \in Procs : RolledBackBy(p, v)]_vars

\* version 001 was applied and a rollbackMigration of it has thrown: its row
\* is still in the ledger
C17_Witness ==
    \E p \in Procs :
        /\ hist[p].call = [kind |-> "rollback", version |-> V001,
                           outcome |-> "threw", durable |-> <<>>]
        /\ V001 \in Versions(db.ledger)
        /\ live[V001] = 1

\* the positions of main() between pool.connect() and client.release()
HoldingPcs ==
    {"em_begin", "em_script", "em_insert", "em_commit", "em_rollback",
     "rm_begin", "rm_script", "rm_delete", "rm_commit", "rm_rollback"}

\* C18: a process holds one client of the pool from the pool.connect() of
\* executeMigration or rollbackMigration to the end of that call and none
\* otherwise: when the call has returned or thrown, wherever it failed, the
\* client is released and no transaction is left open on it.
C18_ConnectionReleased ==
    \A p \in Procs :
        /\ conn[p].out = (IF run[p].pc \in HoldingPcs THEN 1 ELSE 0)
        /\ hist[p].call.outcome \in {"returned", "threw"} =>
              /\ run[p].pc \notin HoldingPcs
              /\ conn[p] = IdleConn

\* an executeMigration that had run its script has thrown and its client is
\* back in the pool
C18_Witness ==
    \E p \in Procs :
        /\ hist[p].call.kind = "apply"
        /\ hist[p].call.outcome = "threw"
        /\ RanScript(p, "forward")
        /\ run[p].pc = "exited"
        /\ conn[p].out = 0

\* the current executeMigration of p is for a version that already had a
\* ledger row when it started (a second file of a version applied earlier
\* in the run)
DuplicateApply(p) ==
    /\ hist[p].call.kind = "apply"
    /\ hist[p].call.outcome # "returned"
    /\ hist[p].call.version \in
          Versions(hist[p].startRows) \cup Range(hist[p].added)

\* C19: the ledger never holds two rows of one version; an executeMigration
\* for a version that already has a row does not get past its INSERT, makes
\* nothing durable (its script's effects are rolled back with the
\* transaction) and ends by throwing the database's error.
C19_UniqueVersions ==
    /\ Len(db.ledger) = Cardinality(Versions(db.ledger))
    /\ \A p \in Procs :
          DuplicateApply(p) =>
            /\ run[p].pc \in {"em_begin", "em_script", "em_insert",
                              "em_rollback", "exited"}
            /\ hist[p].call.durable = <<>>
            /\ hist[p].attempted[Len(hist[p].attempted)] \notin db.schema
            /\ Len(db.ledger) = Len(hist[p].startRows) + Len(hist[p].added)
            /\ run[p].pc = "exited" =>
                  /\ hist[p].call.outcome = "threw"
                  /\ hist[p].error = PgError

\* the executeMigration of a second file of version 001 has thrown after its
\* script had run in the transaction
C19_Witness ==
    \E p \in Procs :
        /\ DuplicateApply(p)
        /\ hist[p].call.version = V001
        /\ hist[p].call.outcome = "threw"
        /\ hist[p].executed[Len(hist[p].executed)].content[1] = SeedFile

\* C20: the process exits with code 0 exactly when its command (migrate,
\* rollback or status) returned, which includes a migrate with nothing
\* pending and a rollback on an empty ledger, and with code 1 when the
\* connection check, the bootstrap, the ledger query, a file lookup or a
\* script's transaction failed, and for an unknown command.
C20_ExitCode ==
    \A p \in Procs :
        IF run[p].pc # "exited" THEN run[p].exitCode = -1
        ELSE /\ run[p].exitCode \in {0, 1}
             /\ run[p].exitCode = 0 <=>
                   /\ hist[p].result = "returned"
                   /\ run[p].cmd \in {"migrate", "rollback", "status"}
                   /\ hist[p].error = NoError
                   /\ hist[p].call.outcome \in {"none", "returned"}
             /\ run[p].exitCode = 1 <=>
                   \/ hist[p].result = "threw" /\ hist[p].error \in Errors
                   \/ hist[p].result = "usage" /\ run[p].cmd = "help"
             /\ (run[p].cmd = "migrate" /\ hist[p].result = "returned") =>
                   hist[p].added = VersionsOfFiles(hist[p].pending)
             /\ (run[p].cmd = "rollback" /\ hist[p].result = "returned") =>
                   \/ hist[p].startRows = <<>> /\ hist[p].removed = <<>>
                   \/ hist[p].removed = <<TargetVersion(p)>>

\* a rollback on an empty ledger has exited with code 0
C20_Witness ==
    \E p \in Procs :
        /\ run[p].pc = "exited" /\ run[p].exitCode = 0
        /\ run[p].cmd = "rollback"
        /\ hist[p].startRows = <<>>
        /\ db.tableExists

\* the forward files of the directory whose content no longer has the
\* checksum recorded in the ledger row of their version and name
ChangedSinceApplied ==
    {f \in ForwardFiles \cap DOMAIN dir :
        \E i \in 1..Len(db.ledger) :
            /\ db.ledger[i].version = VersionOf(f)
            /\ db.ledger[i].name = NameOf(f)
            /\ db.ledger[i].checksum # Md5(ReadFile(dir, f))}

\* C21: a migrate() or status() that runs while the file of an applied
\* version has a checksum other than the one in its ledger row does not
\* return as if the version were cleanly applied.
C21_ChecksumValidated ==
    \A p \in Procs :
        (run[p].cmd \in {"migrate", "status"} /\ run[p].pc = "exited"
         /\ ChangedSinceApplied # {}) =>
          hist[p].result # "returned"

\* executeMigration has committed the forward script of a version twice with
\* no committed rollback of it in between
DoubleApplied == \E v \in FileVersions : live[v] > 1

\* the ledger has two rows of one version
DuplicateRow == Len(db.ledger) # Cardinality(Versions(db.ledger))

\* the effects of a migration's forward script are committed and its
\* version has no ledger row (the bootstrap script aside, which
\* ensureMigrationsTable commits on its own)
ScriptWithoutRow ==
    \E f \in db.schema :
        f # BootstrapFile /\ VersionOf(f) \notin Versions(db.ledger)

\* two concurrent migrate() have both run, each in its transaction, the
\* forward script of the same file
Raced(p, q) ==
    /\ p # q
    /\ run[p].cmd = "migrate" /\ run[q].cmd = "migrate"
    /\ \E i \in ForwardRuns(p), j \in ForwardRuns(q) :
          /\ i > 1 /\ j > 1
          /\ hist[p].executed[i] = hist[q].executed[j]

SessionRoutes == TodoRoutes \cup {UserRoute}

\* requireAuth has ended for the request being served
AuthEnded == http.pc \in {"handler", "done"}

\* C23: every todo route and /user is registered behind requireAuth; for a
\* request on one of them, requireAuth ends in exactly one of next() or an
\* error response of status 401, 503 or 500; next() is called only with a
\* sessionId cookie and an auth service answer with success and isLoggedIn;
\* the route handler runs only after next().
C23_RequireAuth ==
    /\ \A r \in SessionRoutes : Registered[r][1] = "requireAuth"
    /\ http.route \in SessionRoutes =>
         /\ http.nextCalls + http.authSent <= 1
         /\ AuthEnded => http.nextCalls + http.authSent = 1
         /\ http.authSent = 1 =>
              http.status \in {401, 503, 500} /\ http.pc = "done"
         /\ http.nextCalls = 1 =>
              /\ Truthy(http.sessionId)
              /\ http.authResponse.kind = "resolved"
              /\ http.authResponse.success
              /\ http.authResponse.isLoggedIn
         /\ (http.handlerRuns > 0 \/ http.pc = "handler") =>
              http.nextCalls = 1

\* a request with a session cookie on a todo route, for which the auth
\* service answered success without isLoggedIn, has been refused with 401
C23_Witness ==
    /\ http.route \in TodoRoutes
    /\ http.pc = "done"
    /\ Truthy(http.sessionId)
    /\ http.authResponse.kind = "resolved"
    /\ http.authResponse.success /\ ~http.authResponse.isLoggedIn
    /\ http.authSent = 1 /\ http.status = 401
    /\ http.nextCalls = 0 /\ http.handlerRuns = 0

\* rollbackMigration of p has run its script and its DELETE without error
\* and is about to commit, and the ledger has no row of its version: the
\* DELETE matched nothing
DeletedNothing(p) ==
    /\ run[p].pc = "rm_commit"
    /\ conn[p].open /\ ~conn[p].aborted
    /\ run[p].target \notin Versions(db.ledger)

\* C24: a rollbackMigration(v) that finds no ledger row of v fails and does
\* not commit the effects of v's rollback script.
C24_AbsentRowFails ==
    [][\A p \in Procs :
          DeletedNothing(p) =>
            /\ ~DurableScript(hist'[p].call, "rollback")
            /\ hist'[p].result # "returned"]_vars

\* C29: of two concurrent rollback invocations for the same version at most
\* one commits that version's rollback script.
C29_RollbackOnce ==
    \A p, q \in Procs :
        ( /\ p # q
          /\ hist[p].call.kind = "rollback" /\ hist[q].call.kind = "rollback"
          /\ hist[p].call.version = hist[q].call.version ) =>
            ~ ( /\ DurableScript(hist[p].call, "rollback")
                /\ DurableScript(hist[q].call, "rollback") )

\* the row r is written by the commit of the executeMigration(m) of some
\* process, in whose transaction the content of m ran as forward script, and
\* r carries the version and the name of m and the checksum of that content
WrittenWithItsScript(r) ==
    \E p \in Procs :
        /\ run[p].pc = "em_commit"
        /\ conn[p].open /\ ~conn[p].aborted
        /\ LET m == Current(p)
           IN  /\ r.version = m.version
               /\ r.name = NameOf(m.file)
               /\ r.checksum = Md5(m.content)
               /\ \E i \in 1..Len(conn[p].stmts) :
                     conn[p].stmts[i] = ForwardStmt(m.content)
               /\ \E i \in 1..Len(hist'[p].call.durable) :
                     hist'[p].call.durable[i] = ForwardStmt(m.content)
               /\ m.file \in db'.schema

\* C25: a row enters the ledger only with the commit of a transaction in
\* which the forward script of its version ran to its end, with the name and
\* the checksum of the definition whose content ran there; as long as the
\* row stays, its name and checksum stay as written.
C25_RowOfExecutedDefinition ==
    [][\A i \in 1..Len(db'.ledger) :
          LET r == db'.ledger[i]
          IN  IF r.version \in Versions(db.ledger)
              THEN \E j \in 1..Len(db.ledger) :
                       /\ db.ledger[j].version = r.version
                       /\ db.ledger[j].name = r.name
                       /\ db.ledger[j].checksum = r.checksum
              ELSE WrittenWithItsScript(r)]_vars

\* the ledger has the row of a version whose file has been edited since:
\* the row still has the checksum of the content that ran
C25_Witness ==
    /\ ChangedSinceApplied # {}
    /\ \E i \in 1..Len(db.ledger) :
          /\ db.ledger[i].version = V001
          /\ db.ledger[i].checksum # Md5(ReadFile(dir, TodosFile))
          /\ TodosFile \in db.schema

\* C26 as stated: whenever rollback() is about to read a ledger without
\* rows and the server is reachable, the ledger query answers with no rows,
\* so that the rollback reports nothing to roll back and returns.
C26_Original ==
    \A p \in Procs :
        (run[p].cmd = "rollback" /\ run[p].pc = "rb_list"
            /\ db.ledger = <<>>) =>
          LET executedMigrations == getExecutedMigrations(db, TRUE)
          IN  executedMigrations.ok /\ executedMigrations.rows = <<>>

\* C26, amended: a rollback that starts on a ledger without rows, with or
\* without a target version, runs no script, opens no transaction and
\* changes no row; it throws neither the not-found nor the missing-file
\* error; it returns with exit code 0 unless the ledger query itself fails,
\* which it always does when the ledger table does not exist.
C26_EmptyLedger ==
    \A p \in Procs :
        (run[p].cmd = "rollback" /\ hist[p].startRows = <<>>) =>
            /\ Untouching(p)
            /\ hist[p].error \in {NoError, PgError}
            /\ run[p].pc = "exited" =>
                  /\ hist[p].error = NoError =>
                        hist[p].result = "returned" /\ run[p].exitCode = 0
                  /\ ~db.tableExists =>
                        hist[p].error = PgError /\ run[p].exitCode = 1

\* a rollback that names a version has returned on an existing ledger table
\* without rows
C26_Witness ==
    \E p \in Procs :
        /\ run[p].cmd = "rollback" /\ run[p].arg = V001
        /\ run[p].pc = "exited" /\ run[p].exitCode = 0
        /\ hist[p].result = "returned"
        /\ hist[p].startRows = <<>> /\ db.ledger = <<>>
        /\ db.tableExists

\* the positions of the scripts of a kind that the invocation of p has run
ScriptRuns(p, kind) ==
    {i \in 1..Len(hist[p].executed) : hist[p].executed[i].kind = kind}

\* C27: no retries.  A migrate() attempts its pending definitions in order,
\* each at most once, and all attempts but the last have succeeded; once an
\* executeMigration or rollbackMigration has thrown, the invocation has
\* ended; a rollback() attempts at most one rollback transaction; a status
\* attempts none.  So an invocation opens at most |pending| transactions.
C27_NoRetries ==
    \A p \in Procs :
        LET h == hist[p]
        IN  /\ Len(h.attempted) <= Len(h.pending)
            /\ \A i \in 1..Len(h.attempted) : h.attempted[i] = h.pending[i]
            /\ \A i, j \in 1..Len(h.pending) :
                  h.pending[i] = h.pending[j] => i = j
            /\ Len(h.attempted) - 1 <= Len(h.added)
            /\ Len(h.added) <= Len(h.attempted)
            /\ h.call.outcome = "threw" =>
                  /\ run[p].pc = "exited" /\ h.result = "threw"
                  /\ h.call.kind = "apply" =>
                        Len(h.added) = Len(h.attempted) - 1
                  /\ h.call.kind = "rollback" => h.removed = <<>>
            /\ run[p].cmd = "migrate" =>
                  /\ h.call.kind \in {"none", "apply"}
                  /\ ScriptRuns(p, "rollback") = {}
                  \* the bootstrap script, then one script per attempt
                  /\ Cardinality(ScriptRuns(p, "forward"))
                        <= 1 + Len(h.attempted)
            /\ run[p].cmd = "rollback" =>
                  /\ h.attempted = <<>> /\ h.call.kind \in {"none", "rollback"}
                  /\ Cardinality(ScriptRuns(p, "rollback")) <= 1
                  /\ ScriptRuns(p, "forward") = {}
                  /\ Len(h.removed) <= 1
            /\ run[p].cmd \notin {"migrate", "rollback"} =>
                  h.call.kind = "none" /\ h.attempted = <<>>

\* a migrate() with two pending definitions has ended at the failure of the
\* first, whose script had run, leaving the second unattempted
C27_Witness ==
    \E p \in Procs :
        /\ run[p].cmd = "migrate" /\ run[p].pc = "exited"
        /\ Len(hist[p].pending) >= 2
        /\ Len(hist[p].attempted) = 1
        /\ hist[p].call.outcome = "threw"
        /\ RanScript(p, "forward")
        /\ hist[p].added = <<>>

\* C28: from its start to its end a status invocation leaves the database
\* (ledger rows, schema, existence of the ledger table) as it is, runs no
\* script, checks out no connection and opens no transaction; on a database
\* without the ledger table it throws and exits with code 1, the table
\* still absent.
C28_StatusReadOnly ==
    [][\A p \in Procs :
          (run[p].cmd = "status" \/ run'[p].cmd = "status") =>
             /\ db' = db /\ live' = live
             /\ conn[p] = IdleConn /\ conn'[p] = IdleConn
             /\ hist'[p].executed = <<>> /\ hist'[p].call = NoCall
             /\ (run[p].pc = "status" /\ run'[p].pc = "exited"
                   /\ ~db.tableExists) =>
                  /\ hist'[p].result = "threw"
                  /\ run'[p].exitCode = 1
                  /\ ~db'.tableExists]_vars

\* a status has printed its lines on a database with applied migrations,
\* which is as it was when the status started
C28_Witness ==
    \E p \in Procs :
        /\ run[p].cmd = "status" /\ run[p].pc = "exited"
        /\ hist[p].result = "returned" /\ hist[p].output # <<>>
        /\ hist[p].startRows # <<>> /\ db.ledger = hist[p].startRows
        /\ TodosFile \in db.schema
        /\ conn[p] = IdleConn

\* the name of a file contains the word rollback, anywhere
HasRollbackWord(file) == Includes(Chars(file), RollbackWord)

\* the files of the directory that follow the NNN_*.sql convention and have
\* no rollback in their name
ConventionFiles ==
    {f \in DOMAIN dir :
        MatchesMigrationPattern(Chars(f)) /\ ~HasRollbackWord(f)}

\* C30: the registry that migrate() and status() build is made of exactly
\* the files that follow the NNN_*.sql convention and have no rollback in
\* their name; migrate() takes its pending definitions from them and runs no
\* script of a file with rollback in its name, whether or not a forward
\* file shares its version; the script that rollbackMigration(v) runs is of
\* a file that starts with v_ and has rollback in its name, which is not in
\* the registry; no such file ever leaves schema objects or a ledger row.
C30_Classification ==
    /\ \A f \in db.schema : ~HasRollbackWord(f)
    /\ \A p \in Procs :
        LET h == hist[p]
        IN  /\ (run[p].cmd \in {"migrate", "status"} /\ h.result = "returned") =>
                  /\ Len(h.registry) = Cardinality(ConventionFiles)
                  /\ Range(h.registry) = {VersionOf(f) : f \in ConventionFiles}
            /\ \A i \in 1..Len(h.pending) : h.pending[i] \in ConventionFiles
            /\ \A i \in 1..Len(h.executed) :
                  LET f == h.executed[i].content[1]
                  IN  /\ h.executed[i].kind = "forward" =>
                            /\ ~HasRollbackWord(f)
                            /\ f \in ConventionFiles \/ f = BootstrapFile
                      /\ h.executed[i].kind = "rollback" =>
                            /\ run[p].cmd = "rollback"
                            /\ HasRollbackWord(f)
                            /\ StartsWith(Chars(f),
                                          Chars(h.call.version) \o <<"_">>)
                            /\ f \notin ConventionFiles

\* a rollback of version 003 has committed the script of
\* 003_rollback_fix.sql, a file with the word rollback inside its name that
\* no migrate has applied
C30_Witness ==
    \E p \in Procs :
        /\ run[p].cmd = "rollback"
        /\ hist[p].call = [kind |-> "rollback", version |-> V003,
                           outcome |-> "returned",
                           durable |-> hist[p].call.durable]
        /\ hist[p].executed = <<RollbackStmt(<<RollbackFixFile, 1>>)>>
        /\ IndexFile \notin db.schema
        /\ V003 \notin Versions(db.ledger)

====
